---- MODULE Spec2Model ----
(***************************************************************************)
(* Verification model of the MPAS_PREC_AVAL scripts: the unit normalizer   *)
(* (scripts/precip_loaders.py, scripts/spectral.py, scripts/compare.py),   *)
(* the edge trimmer and the spectrum engine (scripts/common.py).           *)
(*                                                                         *)
(* Samples are binary floating-point numbers with a Precision-bit          *)
(* significand, round-to-nearest-even and overflow to infinity, so that    *)
(* x * 24.0 and x / 24.0 round as numpy's do.  Unit tags are sequences of  *)
(* characters, so that .lower(), .strip() and .replace(" ", "") are        *)
(* computed and not assumed.                                               *)
(***************************************************************************)
EXTENDS Integers, Sequences, FiniteSets, TLC

VARIABLES
    keep_attrs,   \* xarray's keep_attrs default in force (library-version dependent)
    src,          \* the field as stored in the input file
    arg,          \* the value the last call was given
    cur,          \* result of the calls made so far: a value or a raised error
    calls,        \* the calls made so far, oldest first
    arr,          \* trimmer / spectrum engine: the array as loaded
    width,        \* trimmer: the trim width (args.trim, or the n of a direct call)
    stage         \* trimmer / spectrum engine: the step last taken

vars == <<keep_attrs, src, arg, cur, calls, arr, width, stage>>

-----------------------------------------------------------------------------
(* Bounds of the model.                                                    *)

\* bits in the significand of a sample (24 for float32, 53 for float64)
Precision == 8
\* largest exponent e of a finite sample m * 2^e
EMax == 8
\* calls chained on one field
MaxCalls == 2

-----------------------------------------------------------------------------
(* Floating-point samples.                                                 *)

RECURSIVE Pow2(_)
Pow2(k) == IF k <= 0 THEN 1 ELSE 2 * Pow2(k - 1)

Abs(i) == IF i < 0 THEN -i ELSE i
Min(i, j) == IF i < j THEN i ELSE j

Fin(m, e) == [k |-> "fin", m |-> m, e |-> e]
NaN == [k |-> "nan", m |-> 0, e |-> 0]
Inf(s) == [k |-> "inf", m |-> s, e |-> 0]
Zero == Fin(0, 0)

\* the fraction num/den scaled by a power of two into [2^(Precision-1), 2^Precision)
RECURSIVE Scale(_, _, _)
Scale(num, den, sh) ==
    IF num >= den * Pow2(Precision) THEN Scale(num, 2 * den, sh + 1)
    ELSE IF num < den * Pow2(Precision - 1) THEN Scale(2 * num, den, sh - 1)
    ELSE <<num, den, sh>>

\* (num/den) * 2^e rounded to the nearest sample, ties to even
Round(num, den, e) ==
    IF num = 0 THEN Zero
    ELSE LET s  == IF num < 0 THEN -1 ELSE 1
             t  == Scale(s * num, den, 0)
             q  == t[1] \div t[2]
             r  == t[1] % t[2]
             up == 2 * r > t[2] \/ (2 * r = t[2] /\ q % 2 = 1)
             m0 == IF up THEN q + 1 ELSE q
             carry == m0 = Pow2(Precision)
             m  == IF carry THEN Pow2(Precision - 1) ELSE m0
             ex == e + t[3] + (IF carry THEN 1 ELSE 0)
         IN  IF ex > EMax THEN Inf(s) ELSE Fin(s * m, ex)

\* x * c and x / c for a positive integer constant c (24.0, 3600.0)
FMul(x, c) == IF x.k = "fin" THEN Round(x.m * c, 1, x.e) ELSE x
FDiv(x, c) == IF x.k = "fin" THEN Round(x.m, c, x.e) ELSE x

FAdd(x, y) ==
    IF x.k = "nan" \/ y.k = "nan" THEN NaN
    ELSE IF x.k = "inf" /\ y.k = "inf" THEN (IF x.m = y.m THEN x ELSE NaN)
    ELSE IF x.k = "inf" THEN x
    ELSE IF y.k = "inf" THEN y
    ELSE LET e0 == Min(x.e, y.e)
         IN  Round(x.m * Pow2(x.e - e0) + y.m * Pow2(y.e - e0), 1, e0)

-----------------------------------------------------------------------------
(* Unit tags: strings as sequences of characters.                          *)

\* attrs.get("units") of a variable that has no units attribute
NoUnits == <<"None">>

LowerChar(c) ==
    CASE c = "M" -> "m" [] c = "H" -> "h" [] c = "D" -> "d" [] c = "A" -> "a"
      [] c = "Y" -> "y" [] c = "K" -> "k" [] c = "G" -> "g" [] c = "S" -> "s"
      [] c = "R" -> "r" [] OTHER -> c

\* str.lower()
Lower(s) == [i \in 1..Len(s) |-> LowerChar(s[i])]

\* str.replace(" ", "")
RECURSIVE RemoveSpaces(_)
RemoveSpaces(s) ==
    IF s = <<>> THEN <<>>
    ELSE IF Head(s) = " " THEN RemoveSpaces(Tail(s))
    ELSE <<Head(s)>> \o RemoveSpaces(Tail(s))

\* str.strip()
RECURSIVE Strip(_)
Strip(s) ==
    IF s = <<>> THEN <<>>
    ELSE IF Head(s) = " " THEN Strip(Tail(s))
    ELSE IF s[Len(s)] = " " THEN Strip(SubSeq(s, 1, Len(s) - 1))
    ELSE s

\* (da.attrs.get("units") or "").lower().replace(" ", "")
NormUnits(u) == IF u = NoUnits THEN <<>> ELSE RemoveSpaces(Lower(u))

mm_h        == <<"m","m","/","h">>
mm_hr       == <<"m","m","/","h","r">>
mmhr        == <<"m","m","h","r">>
mm_per_hour == <<"m","m","_","p","e","r","_","h","o","u","r">>
mm_d        == <<"m","m","/","d">>
mm_day      == <<"m","m","/","d","a","y">>
mm_per_day  == <<"m","m","_","p","e","r","_","d","a","y">>
kgm_2s_1    == <<"k","g","m","-","2","s","-","1">>
kgm_c2s_c1  == <<"k","g","m","^","-","2","s","^","-","1">>
kg_m2_s     == <<"k","g","/","m","^","2","/","s">>
mm_s        == <<"m","m","/","s">>

-----------------------------------------------------------------------------
(* Fields: an xarray DataArray reduced to its units attribute, the name of *)
(* its time dimension ("none" when it has none) and its samples,           *)
(* vals[t][cell].                                                          *)

Field(u, t, v) == [status |-> "ok", units |-> u, time |-> t, vals |-> v]
Raise(err) == [status |-> err, units |-> NoUnits, time |-> "none", vals |-> <<>>]

\* elementwise arithmetic on every sample
MapVals(Op(_), v) == [t \in 1..Len(v) |-> [c \in 1..Len(v[t]) |-> Op(v[t][c])]]

\* the attrs of the result of DataArray arithmetic or of a reduction: dropped
\* when xarray's keep_attrs default is False, those of the operand when True
ResultAttrs(u, keep) == IF keep THEN u ELSE NoUnits

\* a slip in the daily branch: the factor applied the wrong way round
DivBy24_multiplies(x) == FMul(x, 24)

\* da / 24.0, da * 24.0, da * 3600.0
DivBy24(x) == FDiv(x, 24)
MulBy24(x) == FMul(x, 24)
MulBy3600(x) == FMul(x, 3600)

\* sum of the non-NaN samples of one cell over time, and their number
RECURSIVE NanSum(_, _, _)
NanSum(v, c, t) ==
    IF t = 0 THEN <<Zero, 0>>
    ELSE LET rest == NanSum(v, c, t - 1)
         IN  IF v[t][c].k = "nan" THEN rest
             ELSE <<FAdd(rest[1], v[t][c]), rest[2] + 1>>

\* DataArray.mean(tname): the mean over time, NaN skipped, of every cell
TimeMean(da, keep) ==
    Field(ResultAttrs(da.units, keep), "none",
          <<[c \in 1..Len(da.vals[1]) |->
                LET sc == NanSum(da.vals, c, Len(da.vals))
                IN  IF sc[2] = 0 THEN NaN ELSE FDiv(sc[1], sc[2])]>>)

\* a slip in the fall-through: a tag that is not recognized is taken to be mm/h
_to_mm_per_hour_defaulting(da, keep) ==
    LET units == NormUnits(da.units)
    IN  IF units \in {mm_day, mm_d}
             THEN Field(ResultAttrs(da.units, keep), da.time, MapVals(DivBy24, da.vals))
        ELSE IF units \in {kgm_2s_1, kgm_c2s_c1, kg_m2_s, mm_s}
             THEN Field(ResultAttrs(da.units, keep), da.time, MapVals(MulBy3600, da.vals))
        ELSE da

_to_mm_per_hour(da, keep) ==
    LET units == NormUnits(da.units)
    IN  IF units \in {mm_hr, mm_h} THEN da
        ELSE IF units \in {mm_day, mm_d}
             THEN Field(ResultAttrs(da.units, keep), da.time, MapVals(DivBy24, da.vals))
        ELSE IF units \in {kgm_2s_1, kgm_c2s_c1, kg_m2_s, mm_s}
             THEN Field(ResultAttrs(da.units, keep), da.time, MapVals(MulBy3600, da.vals))
        ELSE Raise("ValueError")

\* _pick_time_name: the dataset's time dimension, if it bears one of the names
_pick_time_name(ds) ==
    IF ds.var.time \in {"time", "Time", "valid_time"} THEN ds.var.time ELSE "KeyError"

\* ds is the file: the variable's name and the variable itself
load_gpm_rate(ds, out_unit, time_mean, keep) ==
    IF ds.name \notin {"precipitation", "precipitationCal"} THEN Raise("KeyError")
    ELSE LET rate_h == _to_mm_per_hour(ds.var, keep)
             out_unit_norm == Lower(Strip(out_unit))
             conv == IF out_unit_norm \in {mm_h, mmhr, mm_per_hour} THEN rate_h
                     ELSE IF out_unit_norm \in {mm_d, mm_day, mm_per_day}
                          THEN Field(ResultAttrs(rate_h.units, keep), rate_h.time,
                                     MapVals(MulBy24, rate_h.vals))
                     ELSE Raise("ValueError")
         IN  IF rate_h.status # "ok" THEN rate_h
             ELSE IF conv.status # "ok" THEN conv
             ELSE IF _pick_time_name(ds) = "KeyError" THEN Raise("KeyError")
             ELSE IF time_mean THEN TimeMean(conv, keep) ELSE conv

\* regrid.main: load_gpm_rate, then the remap (onto the grid the field is already
\* on: every sample is kept), then attrs.update(units = args.out_unit)
regrid_main(ds, out_unit, time_mean, keep) ==
    LET gpm_rate == load_gpm_rate(ds, out_unit, time_mean, keep)
    IN  IF gpm_rate.status # "ok" THEN gpm_rate
        ELSE Field(out_unit, gpm_rate.time, gpm_rate.vals)

_ensure_unit_mm_per_day(da) ==
    LET units == NormUnits(da.units)
    IN  IF units \in {mm_d, mm_day, mm_per_day} THEN da
        ELSE IF units \in {mm_h, mmhr, mm_per_hour}
             THEN Field(mm_day, da.time, MapVals(MulBy24, da.vals))
        ELSE IF units = <<>>
             THEN Field(mm_day, da.time, MapVals(MulBy24, da.vals))
        ELSE Raise("ValueError")

\* da.mean("time") if "time" in da.dims else da
_maybe_time_mean(da, keep) == IF da.time = "time" THEN TimeMean(da, keep) ELSE da

\* spectral.main, from gpm = ds_gpm[gpm_var] to the end of the unit conversion
spectral_main_unit(da, unit, keep) ==
    LET gpm == _maybe_time_mean(da, keep)
        units == NormUnits(gpm.units)
    IN  IF unit = mm_day THEN _ensure_unit_mm_per_day(gpm)
        ELSE IF units \in {mm_d, mm_day, mm_per_day}
             THEN Field(mm_h, gpm.time, MapVals(DivBy24, gpm.vals))
        ELSE gpm

\* compare.main, from da_gpm = ds_gpm[gpm_var] to gpm_day
compare_main_unit(da, keep) ==
    LET da_gpm == _maybe_time_mean(da, keep)
        units == NormUnits(da_gpm.units)
    IN  IF units \in {mm_d, mm_day, mm_per_day} THEN da_gpm
        ELSE IF units \in {mm_h, mmhr, mm_per_hour}
             THEN Field(mm_day, da_gpm.time, MapVals(MulBy24, da_gpm.vals))
        ELSE IF units = <<>>
             THEN Field(mm_day, da_gpm.time, MapVals(MulBy24, da_gpm.vals))
        ELSE Raise("ValueError")

-----------------------------------------------------------------------------
(* The unit normalizer as a state machine: a file is opened, and calls are *)
(* chained on the field it holds.                                          *)

Mantissas == Pow2(Precision - 1) .. (Pow2(Precision) - 1)
One == Fin(Pow2(Precision - 1), 1 - Precision)
MaxFinite == Fin(Pow2(Precision) - 1, EMax)

\* every significand, at exponents that put the sample in [1, 2)
DenseVals == {Fin(m, 1 - Precision) : m \in Mantissas}
\* zero, a missing value, 1.0, a negative rate, the largest and a large sample
EdgeVals == {Zero, NaN, One, Fin(-3 * Pow2(Precision - 2), 1 - Precision),
             MaxFinite, Fin(Pow2(Precision - 1) + 1, EMax - 3)}
PairVals == {One, NaN, Fin(Pow2(Precision) - 1, 1 - Precision)}

\* unit attributes as found in files: the recognized forms, in other case and
\* spacing, and forms no function recognizes
CoreTags == {mm_h, mm_day, <<"k","g"," ","m","-","2"," ","s","-","1">>, NoUnits}
Tags == CoreTags \cup
    {mm_hr, mm_d, mmhr, mm_per_hour, mm_per_day, kgm_2s_1, kgm_c2s_c1, kg_m2_s, mm_s,
     <<"M","M","/","H">>, <<"m","m"," ","/"," ","h">>, <<"m","m","/","D","a","y">>,
     <<"K","g"," ","m","^","-","2"," ","s","^","-","1">>,
     <<>>, <<" ">>, <<"m","m">>, <<"m","/","s">>, <<"m","m"," ","h","-","1">>,
     <<"n","o","r","m","a","l","i","z","e","d">>}

Sources ==
    {[name |-> "precipitation", var |-> Field(u, t, <<<<x>>>>)] :
        u \in CoreTags, t \in {"none", "time"}, x \in DenseVals}
    \cup {[name |-> "precipitation", var |-> Field(u, t, <<<<x>>>>)] :
        u \in Tags, t \in {"none", "time"}, x \in EdgeVals}
    \cup {[name |-> "precipitation", var |-> Field(u, "none", <<<<x, y>>>>)] :
        u \in CoreTags, x \in PairVals, y \in PairVals}
    \cup {[name |-> "precipitation", var |-> Field(u, "time", <<<<x>>, <<y>>>>)] :
        u \in CoreTags, x \in PairVals, y \in PairVals}
    \cup {[name |-> nm, var |-> Field(u, t, <<<<One>>>>)] :
        nm \in {"precipitationCal", "precipitation_rate"},
        u \in {mm_h, mm_day}, t \in {"Time", "valid_time", "none"}}

\* out_unit as a caller may spell it
OutUnits == {mm_h, mm_day, <<" ","M","M","/","D","a","y"," ">>, <<"m","m"," ","/"," ","d","a","y">>}

Call(op, unit, time_mean) == [op |-> op, unit |-> unit, time_mean |-> time_mean]

InitUnits ==
    /\ keep_attrs \in BOOLEAN
    /\ src \in Sources
    /\ arg = src.var
    /\ cur = src.var
    /\ calls = <<>>
    /\ arr = <<>> /\ width = 0 /\ stage = "idle"

CanCall == Len(calls) < MaxCalls /\ cur.status = "ok"

CallToMmPerHour ==
    /\ CanCall
    /\ arg' = cur
    /\ cur' = _to_mm_per_hour(cur, keep_attrs)
    /\ calls' = Append(calls, Call("_to_mm_per_hour", <<>>, FALSE))
    /\ UNCHANGED <<keep_attrs, src, arr, width, stage>>

\* the loaders open the file: they are the first call or none
CallLoadGpmRate ==
    /\ CanCall /\ calls = <<>>
    /\ arg' = src.var
    /\ \E out_unit \in OutUnits, time_mean \in BOOLEAN :
          /\ cur' = load_gpm_rate(src, out_unit, time_mean, keep_attrs)
          /\ calls' = Append(calls, Call("load_gpm_rate", out_unit, time_mean))
    /\ UNCHANGED <<keep_attrs, src, arr, width, stage>>

CallRegridMain ==
    /\ CanCall /\ calls = <<>>
    /\ arg' = src.var
    /\ \E out_unit \in {mm_h, mm_day}, time_mean \in BOOLEAN :
          /\ cur' = regrid_main(src, out_unit, time_mean, keep_attrs)
          /\ calls' = Append(calls, Call("regrid_main", out_unit, time_mean))
    /\ UNCHANGED <<keep_attrs, src, arr, width, stage>>

CallEnsureUnitMmPerDay ==
    /\ CanCall
    /\ arg' = cur
    /\ cur' = _ensure_unit_mm_per_day(cur)
    /\ calls' = Append(calls, Call("_ensure_unit_mm_per_day", <<>>, FALSE))
    /\ UNCHANGED <<keep_attrs, src, arr, width, stage>>

CallSpectralMainUnit ==
    /\ CanCall
    /\ arg' = cur
    /\ \E unit \in {mm_day, mm_h} :
          /\ cur' = spectral_main_unit(cur, unit, keep_attrs)
          /\ calls' = Append(calls, Call("spectral_main_unit", unit, FALSE))
    /\ UNCHANGED <<keep_attrs, src, arr, width, stage>>

CallCompareMainUnit ==
    /\ CanCall
    /\ arg' = cur
    /\ cur' = compare_main_unit(cur, keep_attrs)
    /\ calls' = Append(calls, Call("compare_main_unit", <<>>, FALSE))
    /\ UNCHANGED <<keep_attrs, src, arr, width, stage>>

NextUnits ==
    \/ CallToMmPerHour
    \/ CallLoadGpmRate
    \/ CallRegridMain
    \/ CallEnsureUnitMmPerDay
    \/ CallSpectralMainUnit
    \/ CallCompareMainUnit

SpecUnits == InitUnits /\ [][NextUnits]_vars

-----------------------------------------------------------------------------
(* Properties of the unit normalizer.                                      *)

LastCall == calls[Len(calls)]
Called(op) == calls # <<>> /\ LastCall.op = op

\* r is (num/den) * 2^e to within half a unit in the last place of r, or
\* infinite when the exact value is beyond the largest sample
IsRounded(r, num, den, e) ==
    IF num = 0 THEN r = Zero
    ELSE IF r.k = "fin"
         THEN LET e0 == Min(r.e, e)
              IN  /\ Pow2(Precision - 1) <= Abs(r.m) /\ Abs(r.m) < Pow2(Precision)
                  /\ 2 * Abs(r.m * den * Pow2(r.e - e0) - num * Pow2(e - e0))
                        <= den * Pow2(r.e - e0)
                  /\ r.e <= EMax
         ELSE /\ r.k = "inf"
              /\ (r.m > 0) = (num > 0)
              /\ e <= EMax /\ EMax - e <= 13
              /\ 2 * Abs(num) >= den * (2 * Pow2(Precision) - 1) * Pow2(EMax - e)

\* r is x times num/den, as a sample
IsScaled(r, x, num, den) ==
    IF x.k = "fin" THEN IsRounded(r, x.m * num, den, x.e) ELSE r = x

SameShape(f, g) ==
    /\ Len(f.vals) = Len(g.vals)
    /\ \A t \in 1..Len(f.vals) : Len(f.vals[t]) = Len(g.vals[t])

Cells(f) == {<<t, c>> : t \in 1..Len(f.vals), c \in 1..Len(f.vals[1])}

\* 3600.0
F3600 == Fin(225 * Pow2(Precision - 8), 12 - Precision)

\* C1: for a recognized unit tag (case and spaces ignored) _to_mm_per_hour returns,
\* sample by sample, the input for mm/h and mm/hr, the input divided by 24 for
\* mm/day and mm/d, the input times 3600 for the kg m-2 s-1 family; 1.0 tagged
\* "kg m-2 s-1" becomes 3600.0.
C1_ToMmPerHourConverts ==
    Called("_to_mm_per_hour") =>
        LET units == NormUnits(arg.units)
        IN  /\ units \in {mm_h, mm_hr} =>
                  cur.status = "ok" /\ cur.vals = arg.vals
            /\ units \in {mm_day, mm_d} =>
                  /\ cur.status = "ok" /\ SameShape(cur, arg)
                  /\ \A p \in Cells(arg) :
                        IsScaled(cur.vals[p[1]][p[2]], arg.vals[p[1]][p[2]], 1, 24)
            /\ units \in {kgm_2s_1, kgm_c2s_c1, kg_m2_s, mm_s} =>
                  /\ cur.status = "ok" /\ SameShape(cur, arg)
                  /\ \A p \in Cells(arg) :
                        /\ IsScaled(cur.vals[p[1]][p[2]], arg.vals[p[1]][p[2]], 3600, 1)
                        /\ arg.vals[p[1]][p[2]] = One => cur.vals[p[1]][p[2]] = F3600

\* C1 witness: 1.0 tagged "kg m-2 s-1" has been converted to 3600.0
C1_Witness ==
    /\ Called("_to_mm_per_hour")
    /\ arg.units = <<"k","g"," ","m","-","2"," ","s","-","1">>
    /\ arg.vals = <<<<One>>>>
    /\ cur.status = "ok" /\ cur.vals = <<<<F3600>>>>

\* C2: _to_mm_per_hour raises the unrecognized-unit error and returns no field when
\* the unit tag is absent, empty or not a recognized form; no default unit is used.
C2_ToMmPerHourRejects ==
    (/\ Called("_to_mm_per_hour")
     /\ NormUnits(arg.units) \notin
            {mm_h, mm_hr, mm_day, mm_d, kgm_2s_1, kgm_c2s_c1, kg_m2_s, mm_s})
        => cur.status = "ValueError" /\ cur.vals = <<>>

\* C2 witness: a field without units attribute has been refused
C2_Witness ==
    /\ Called("_to_mm_per_hour")
    /\ arg.units = NoUnits /\ arg.vals # <<>>
    /\ cur.status = "ValueError"

\* C3: at the GPM unit harmonization of compare.main and spectral.main, for --unit
\* mm/day and --unit mm/h alike, a field is accepted only if its tag is a recognized
\* hourly or daily form or is empty/missing; any other tag raises an error.
C3_OnlyEmptyTagDefaults ==
    (/\ (Called("spectral_main_unit") \/ Called("compare_main_unit"))
     /\ arg.time = "none"
     /\ cur.status = "ok")
        => NormUnits(arg.units) \in
              {mm_h, mmhr, mm_per_hour, mm_d, mm_day, mm_per_day, <<>>}

\* the conversions mm/h -> mm/day and mm/day -> mm/h that C4 chains
ToDaily(c) ==
    \/ c.op \in {"load_gpm_rate", "regrid_main"} /\ Lower(Strip(c.unit)) = mm_day
           /\ ~c.time_mean
    \/ c.op = "_ensure_unit_mm_per_day"
ToHourly(c) ==
    \/ c.op = "spectral_main_unit" /\ c.unit = mm_h
    \/ c.op = "_to_mm_per_hour"

\* C4: a field in mm/h converted to mm/day (load_gpm_rate, _ensure_unit_mm_per_day)
\* and back to mm/h (spectral.main's mm/h branch, _to_mm_per_hour) has the original
\* value in every sample.
C4_RoundTripExact ==
    (/\ Len(calls) = 2 /\ ToDaily(calls[1]) /\ ToHourly(calls[2])
     /\ NormUnits(src.var.units) = mm_h
     /\ src.name = "precipitation"
     /\ src.var.time = "time" /\ Len(src.var.vals) = 1)
        => cur.status = "ok" /\ cur.vals = src.var.vals

NamesHourly(u) == NormUnits(u) \in {mm_h, mm_hr, mmhr, mm_per_hour}
NamesDaily(u) == NormUnits(u) \in {mm_d, mm_day, mm_per_day}

\* C5: the unit tag of a field returned by a unit-normalizing operation names the
\* unit the caller asked for, which is the unit its values are in.
C5_TagNamesUnit ==
    (/\ calls # <<>> /\ cur.status = "ok"
     /\ LastCall.op \in {"_to_mm_per_hour", "_ensure_unit_mm_per_day",
                          "load_gpm_rate", "spectral_main_unit"}
     /\ ~LastCall.time_mean
     /\ LastCall.op = "spectral_main_unit" =>
            /\ arg.time = "none"
            /\ NormUnits(arg.units) \in {mm_h, mmhr, mm_per_hour, mm_d, mm_day, mm_per_day})
        => LET hourly == \/ LastCall.op = "_to_mm_per_hour"
                         \/ /\ LastCall.op \in {"load_gpm_rate", "spectral_main_unit"}
                            /\ Lower(Strip(LastCall.unit)) = mm_h
               named == IF hourly THEN NamesHourly(cur.units) ELSE NamesDaily(cur.units)
           IN  /\ NormUnits(cur.units) # <<>> => named
               /\ cur.vals # arg.vals => named

-----------------------------------------------------------------------------
(* Arrays of the edge trimmer and the spectrum engine.                     *)
(*                                                                         *)
(* A number is (p + q*sqrt(3)) / d in lowest terms.  Grid sizes divide 12, *)
(* so the roots of unity of the DFT are twelfth roots, and the transform   *)
(* and its squared magnitude are exact in these numbers.                   *)

\* largest grid side
MaxDim == 6
\* largest trim width tried
MaxTrim == 3
\* largest number of time slices of a 3D field
MaxTimes == 2
\* largest side of a 3D field
MaxDim3 == 3

Max(i, j) == IF i > j THEN i ELSE j

RECURSIVE GCD(_, _)
GCD(i, j) == IF j = 0 THEN Abs(i) ELSE GCD(Abs(j), Abs(i) % Abs(j))
LCM(i, j) == (i \div GCD(i, j)) * j

Num(p, q, d) ==
    LET g == GCD(GCD(p, q), d)
    IN  [p |-> p \div g, q |-> q \div g, d |-> d \div g]
IntNum(c) == [p |-> c, q |-> 0, d |-> 1]
\* np.nan, a cell without a value: the number with denominator 0
NumNaN == [p |-> 0, q |-> 0, d |-> 0]
NumAdd(u, w) ==
    IF u.d = 0 \/ w.d = 0 THEN NumNaN
    ELSE Num(u.p * w.d + w.p * u.d, u.q * w.d + w.q * u.d, u.d * w.d)
\* u / c for an integer c >= 1
NumDiv(u, c) == IF u.d = 0 THEN NumNaN ELSE Num(u.p, u.q, u.d * c)

\* an ndarray: its rank, its shape and its cells, v[y][x] (v[x] when 1D)
Array2(ny, nx, v) == [status |-> "ok", ndim |-> 2, ny |-> ny, nx |-> nx, v |-> v]
Array1(v) == [status |-> "ok", ndim |-> 1, ny |-> 1, nx |-> Len(v), v |-> v]
RaiseA(err) == [status |-> err, ndim |-> 0, ny |-> 0, nx |-> 0, v |-> <<>>]
\* a (time, y, x) array, v[t][y][x]
Array3(nt, ny, nx, v) ==
    [status |-> "ok", ndim |-> 3, nt |-> nt, ny |-> ny, nx |-> nx, v |-> v]
\* an array of a rank that neither helper accepts; only its rank matters
ArrayOfRank(k) == [status |-> "ok", ndim |-> k, ny |-> 1, nx |-> 1, v |-> <<>>]

\* the bound of a slice, as Python normalizes it on an axis of length len
SliceBound(i, len) == IF i < 0 THEN Max(i + len, 0) ELSE Min(i, len)

\* a slip in the guard: n = 0 reaches the slice a[0:-0], which is empty
trim_edges_unguarded(a, n) ==
    IF n < 0 THEN a
    ELSE LET y0 == SliceBound(n, a.ny)
             y1 == SliceBound(-n, a.ny)
             x0 == SliceBound(n, a.nx)
             x1 == SliceBound(-n, a.nx)
         IN  Array2(Max(y1 - y0, 0), Max(x1 - x0, 0),
                    [i \in 1..Max(y1 - y0, 0) |->
                        [j \in 1..Max(x1 - x0, 0) |-> a.v[y0 + i][x0 + j]]])

trim_edges(a, n) ==
    IF n <= 0 THEN a
    ELSE LET y0 == SliceBound(n, a.ny)
             y1 == SliceBound(-n, a.ny)
             x0 == SliceBound(n, a.nx)
             x1 == SliceBound(-n, a.nx)
         IN  Array2(Max(y1 - y0, 0), Max(x1 - x0, 0),
                    [i \in 1..Max(y1 - y0, 0) |->
                        [j \in 1..Max(x1 - x0, 0) |-> a.v[y0 + i][x0 + j]]])

\* print_field_stats: np.nanmin of an array without cells raises
print_field_stats(values) ==
    IF values.ny = 0 \/ values.nx = 0 THEN "ValueError" ELSE "ok"

\* zeta^k for zeta = exp(2*pi*i/12), on the basis 1, zeta, zeta^2, zeta^3
Zeta(k) ==
    LET j == k % 6
        u == CASE j = 0 -> <<1, 0, 0, 0>> [] j = 1 -> <<0, 1, 0, 0>>
               [] j = 2 -> <<0, 0, 1, 0>> [] j = 3 -> <<0, 0, 0, 1>>
               [] j = 4 -> <<-1, 0, 1, 0>> [] OTHER -> <<0, -1, 0, 1>>
        s == IF k % 12 >= 6 THEN -1 ELSE 1
    IN  [i \in 1..4 |-> s * u[i]]

\* sum over the first cnt cells, row by row, of f[y][x] * exp(-2 pi i (k y/ny + l x/nx))
RECURSIVE DftSum(_, _, _, _, _, _)
DftSum(f, ny, nx, k, l, cnt) ==
    IF cnt = 0 THEN <<0, 0, 0, 0>>
    ELSE LET y == (cnt - 1) \div nx
             x == (cnt - 1) % nx
             z == Zeta(-((12 \div ny) * k * y + (12 \div nx) * l * x))
             rest == DftSum(f, ny, nx, k, l, cnt - 1)
         IN  [i \in 1..4 |-> rest[i] + f[y + 1][x + 1] * z[i]]

\* np.fft.fft2: the 2D discrete Fourier transform of integer samples f
fft2(f, ny, nx) ==
    [k \in 1..ny |-> [l \in 1..nx |-> DftSum(f, ny, nx, k - 1, l - 1, ny * nx)]]

\* a slip in the shift: np.fft.ifftshift, which rolls by half the length rounded up
fftshift_inverse(X, ny, nx) ==
    [i \in 1..ny |-> [j \in 1..nx |->
        X[((i - 1 - (ny + 1) \div 2) % ny) + 1][((j - 1 - (nx + 1) \div 2) % nx) + 1]]]

\* np.fft.fftshift: every axis rolled by half its length, rounded down
fftshift(X, ny, nx) ==
    [i \in 1..ny |-> [j \in 1..nx |->
        X[((i - 1 - ny \div 2) % ny) + 1][((j - 1 - nx \div 2) % nx) + 1]]]

\* np.abs(z) ** 2 of z = z[1] + z[2] zeta + z[3] zeta^2 + z[4] zeta^3
AbsSquared(z) ==
    [p |-> z[1]*z[1] + z[2]*z[2] + z[3]*z[3] + z[4]*z[4] + z[1]*z[3] + z[2]*z[4],
     q |-> z[1]*z[2] + z[2]*z[3] + z[3]*z[4]]

\* the least common denominator of the first cnt cells of a 2D array
RECURSIVE CommonDen(_, _, _)
CommonDen(v, nx, cnt) ==
    IF cnt = 0 THEN 1
    ELSE LCM(CommonDen(v, nx, cnt - 1), v[((cnt - 1) \div nx) + 1][((cnt - 1) % nx) + 1].d)

\* lines 169-173: fft2, fftshift and |.|^2 of a 2D field
power_spectrum_2d(field) ==
    IF field.ny = 0 \/ field.nx = 0 THEN RaiseA("ValueError")
    ELSE IF \E y \in 1..field.ny : \E x \in 1..field.nx : field.v[y][x].d = 0
         \* every coefficient sums all the cells: one nan makes them all nan
         THEN Array2(field.ny, field.nx,
                     [y \in 1..field.ny |-> [x \in 1..field.nx |-> NumNaN]])
    ELSE LET ny == field.ny
             nx == field.nx
             den == CommonDen(field.v, nx, ny * nx)
             f == [y \in 1..ny |-> [x \in 1..nx |->
                      field.v[y][x].p * (den \div field.v[y][x].d)]]
             fft_shifted == fftshift(fft2(f, ny, nx), ny, nx)
         IN  Array2(ny, nx,
                    [y \in 1..ny |-> [x \in 1..nx |->
                        LET w == AbsSquared(fft_shifted[y][x])
                        IN  Num(w.p, w.q, den * den)]])

\* the sum of cell (y, x) over the first cnt slices of a 3D array
RECURSIVE SumAxis0(_, _, _, _)
SumAxis0(v, y, x, cnt) ==
    IF cnt = 0 THEN IntNum(0) ELSE NumAdd(SumAxis0(v, y, x, cnt - 1), v[cnt][y][x])

\* field.mean(axis=0) of a (time, y, x) array
MeanAxis0(field) ==
    Array2(field.ny, field.nx,
           [y \in 1..field.ny |-> [x \in 1..field.nx |->
               NumDiv(SumAxis0(field.v, y, x, field.nt), field.nt)]])

\* a slip in the dispatch: the first time slice taken in place of the time mean
compute_spectrum_first_slice(field) ==
    IF field.ndim = 3
         THEN power_spectrum_2d(Array2(field.ny, field.nx, field.v[1]))
    ELSE IF field.ndim # 2 THEN RaiseA("ValueError")
    ELSE power_spectrum_2d(field)

compute_spectrum(field) ==
    IF field.ndim = 3 THEN power_spectrum_2d(MeanAxis0(field))
    ELSE IF field.ndim # 2 THEN RaiseA("ValueError")
    ELSE power_spectrum_2d(field)

\* floor of the square root
ISqrt(i) == CHOOSE r \in 0..i : r * r <= i /\ i < (r + 1) * (r + 1)

\* a slip in the center: (n - 1) div 2, the convention of the older scripts
Radius_low_center(ny, nx, cnt) ==
    LET y == (cnt - 1) \div nx
        x == (cnt - 1) % nx
        center_y == (ny - 1) \div 2
        center_x == (nx - 1) \div 2
    IN  ISqrt((x - center_x) * (x - center_x) + (y - center_y) * (y - center_y))

\* a slip in the radius: the squared distance binned, the root forgotten
Radius_squared(ny, nx, cnt) ==
    LET y == (cnt - 1) \div nx
        x == (cnt - 1) % nx
        center_y == ny \div 2
        center_x == nx \div 2
    IN  (x - center_x) * (x - center_x) + (y - center_y) * (y - center_y)

\* r.ravel()[cnt - 1]: the radius bin of the cell, counted row by row
Radius(ny, nx, cnt) ==
    LET y == (cnt - 1) \div nx
        x == (cnt - 1) % nx
        center_y == ny \div 2
        center_x == nx \div 2
    IN  ISqrt((x - center_x) * (x - center_x) + (y - center_y) * (y - center_y))

\* the length of np.bincount(r.ravel()): one more than the largest radius bin
RECURSIVE BinCountLen(_, _, _)
BinCountLen(ny, nx, cnt) ==
    IF cnt = 0 THEN 0
    ELSE Max(Radius(ny, nx, cnt) + 1, BinCountLen(ny, nx, cnt - 1))

\* np.bincount(r.ravel(), weights)[b] over the first cnt cells
RECURSIVE BinSum(_, _, _, _, _)
BinSum(v, ny, nx, b, cnt) ==
    IF cnt = 0 THEN IntNum(0)
    ELSE LET rest == BinSum(v, ny, nx, b, cnt - 1)
         IN  IF Radius(ny, nx, cnt) = b
             THEN NumAdd(rest, v[((cnt - 1) \div nx) + 1][((cnt - 1) % nx) + 1])
             ELSE rest

\* np.bincount(r.ravel())[b] over the first cnt cells
RECURSIVE BinCount(_, _, _, _)
BinCount(ny, nx, b, cnt) ==
    IF cnt = 0 THEN 0
    ELSE BinCount(ny, nx, b, cnt - 1) + (IF Radius(ny, nx, cnt) = b THEN 1 ELSE 0)

\* a slip in the last line: the bin totals returned without the division
radial_mean_undivided(power_spectrum) ==
    IF power_spectrum.ndim # 2 THEN RaiseA("ValueError")
    ELSE LET ny == power_spectrum.ny
             nx == power_spectrum.nx
             len == BinCountLen(ny, nx, ny * nx)
         IN  Array1([b \in 1..len |-> BinSum(power_spectrum.v, ny, nx, b - 1, ny * nx)])

radial_mean(power_spectrum) ==
    IF power_spectrum.ndim # 2 THEN RaiseA("ValueError")
    ELSE LET ny == power_spectrum.ny
             nx == power_spectrum.nx
             len == BinCountLen(ny, nx, ny * nx)
         IN  Array1([b \in 1..len |->
                 LET tbin == BinSum(power_spectrum.v, ny, nx, b - 1, ny * nx)
                     nr == BinCount(ny, nx, b - 1, ny * nx)
                 IN  NumDiv(tbin, Max(nr, 1))])

-----------------------------------------------------------------------------
(* The tail of spectral.main (trim, statistics, spectrum, radial mean) and *)
(* direct calls of the three helpers, as a state machine.                  *)

Sizes == {d \in 1..MaxDim : 12 % d = 0}

Patterns == {"zero", "one", "two", "minus", "index", "impulse", "corner", "checker",
             "mixed", "gap"}

Sample(pat, y, x, ny, nx) ==
    CASE pat = "zero" -> 0
      [] pat = "one" -> 1
      [] pat = "two" -> 2
      [] pat = "minus" -> -3
      [] pat = "index" -> 10 * y + x
      [] pat = "impulse" -> IF y = 1 /\ x = 1 THEN 1 ELSE 0
      [] pat = "corner" -> IF y = ny /\ x = nx THEN 2 ELSE 0
      [] pat = "checker" -> (y + x) % 2
      [] pat = "gap" -> 3 * y - x
      [] OTHER -> ((y * y + 3 * x) % 5) - 1

\* the cell of a field; the "gap" fields have no value in their last cell
Cell(pat, y, x, ny, nx) ==
    IF pat = "gap" /\ y = ny /\ x = nx THEN NumNaN ELSE IntNum(Sample(pat, y, x, ny, nx))

Filled(pat, ny, nx) ==
    Array2(ny, nx, [y \in 1..ny |-> [x \in 1..nx |-> Cell(pat, y, x, ny, nx)]])

Arrays == {Filled(pat, ny, nx) : pat \in Patterns, ny \in Sizes, nx \in Sizes}

\* slice t of a 3D field: the pattern plus a drift that grows with t
Filled3(pat, nt, ny, nx) ==
    Array3(nt, ny, nx,
           [t \in 1..nt |-> [y \in 1..ny |-> [x \in 1..nx |->
               NumAdd(Cell(pat, y, x, ny, nx), IntNum((t - 1) * (x + 2 * y - 4)))]]])

Sizes3 == {d \in Sizes : d <= MaxDim3}

Arrays3 ==
    {Filled3(pat, nt, ny, nx) : pat \in Patterns, nt \in 1..MaxTimes,
                                ny \in Sizes3, nx \in Sizes3}

\* 0D, 1D and 4D inputs
OtherRanks ==
    {ArrayOfRank(0), ArrayOfRank(4)} \cup {Array1([x \in 1..n |-> IntNum(x)]) : n \in 1..2}

InitSpectrum ==
    /\ \/ arr \in Arrays /\ width \in -1..MaxTrim
       \/ arr \in Arrays3 \cup OtherRanks /\ width = 0
    /\ stage = "loaded"
    /\ arg = arr
    /\ cur = arr
    /\ keep_attrs = FALSE /\ src = <<>> /\ calls = <<>>

\* spectral.main: if args.trim > 0: gpm2d = trim_edges(gpm2d, n=args.trim)
MainTrim ==
    /\ stage = "loaded" /\ arr.ndim = 2
    /\ arg' = arr
    /\ cur' = IF width > 0 THEN trim_edges(arr, width) ELSE arr
    /\ stage' = "trimmed"
    /\ UNCHANGED <<keep_attrs, src, calls, arr, width>>

\* spectral.main: print_field_stats(gpm2d, ...); an error ends the run
MainPrintFieldStats ==
    /\ stage = "trimmed"
    /\ arg' = cur
    /\ stage' = IF print_field_stats(cur) = "ok" THEN "stats" ELSE "failed"
    /\ cur' = IF print_field_stats(cur) = "ok" THEN cur ELSE RaiseA(print_field_stats(cur))
    /\ UNCHANGED <<keep_attrs, src, calls, arr, width>>

\* spectral.main: spec_gpm = compute_spectrum(gpm2d)
MainComputeSpectrum ==
    /\ stage = "stats"
    /\ arg' = cur
    /\ cur' = compute_spectrum(cur)
    /\ stage' = IF compute_spectrum(cur).status = "ok" THEN "spectrum" ELSE "failed"
    /\ UNCHANGED <<keep_attrs, src, calls, arr, width>>

\* spectral.main: radial_gpm = radial_mean(spec_gpm)
MainRadialMean ==
    /\ stage = "spectrum"
    /\ arg' = cur
    /\ cur' = radial_mean(cur)
    /\ stage' = "radial"
    /\ UNCHANGED <<keep_attrs, src, calls, arr, width>>

\* the helpers called on the array itself
CallTrimEdges ==
    /\ stage = "loaded" /\ arr.ndim = 2
    /\ arg' = arr
    /\ cur' = trim_edges(arr, width)
    /\ stage' = "trim_edges"
    /\ UNCHANGED <<keep_attrs, src, calls, arr, width>>

CallComputeSpectrum ==
    /\ stage = "loaded"
    /\ arg' = arr
    /\ cur' = compute_spectrum(arr)
    /\ stage' = "compute_spectrum"
    /\ UNCHANGED <<keep_attrs, src, calls, arr, width>>

CallRadialMean ==
    /\ stage = "loaded"
    /\ arg' = arr
    /\ cur' = radial_mean(arr)
    /\ stage' = "radial_mean"
    /\ UNCHANGED <<keep_attrs, src, calls, arr, width>>

NextSpectrum ==
    \/ MainTrim
    \/ MainPrintFieldStats
    \/ MainComputeSpectrum
    \/ MainRadialMean
    \/ CallTrimEdges
    \/ CallComputeSpectrum
    \/ CallRadialMean

SpecSpectrum == InitSpectrum /\ [][NextSpectrum]_vars

-----------------------------------------------------------------------------
(* Properties of the edge trimmer and the spectrum engine.                 *)

\* C6: for 0 <= n < min(rows, cols)/2, trim_edges(a, n) has shape
\* (rows - 2n, cols - 2n) and its cell (i, j) is a[i+n][j+n]; trim_edges(a, 0) is a.
C6_TrimEdgesShapeAndCells ==
    (/\ stage = "trim_edges"
     /\ 0 <= width /\ 2 * width < Min(arg.ny, arg.nx))
        => /\ cur.status = "ok" /\ cur.ndim = 2
           /\ cur.ny = arg.ny - 2 * width /\ cur.nx = arg.nx - 2 * width
           /\ DOMAIN cur.v = 1..cur.ny
           /\ \A i \in 1..cur.ny :
                 /\ DOMAIN cur.v[i] = 1..cur.nx
                 /\ \A j \in 1..cur.nx : cur.v[i][j] = arg.v[i + width][j + width]
           /\ width = 0 => cur = arg

\* C6 witness: two cells have been trimmed from every side of a 6 x 6 array
C6_Witness ==
    /\ stage = "trim_edges" /\ width = 2
    /\ arg = Filled("index", 6, 6)
    /\ cur.ny = 2 /\ cur.nx = 2 /\ cur.v[1][1] = IntNum(33) /\ cur.v[2][2] = IntNum(44)

Empty(x) == x.ny = 0 \/ x.nx = 0

\* C7: when rows - 2n <= 0 or cols - 2n <= 0, trim_edges fails with an invalid-trim
\* error and returns no empty array, so that spectral.main never hands an empty
\* field to compute_spectrum.
C7_InvalidTrimRaises ==
    /\ (/\ stage \in {"trim_edges", "trimmed"} /\ width > 0
         /\ (arg.ny - 2 * width <= 0 \/ arg.nx - 2 * width <= 0))
            => cur.status = "InvalidTrimError"
    /\ stage \in {"spectrum", "compute_spectrum"} => ~Empty(arg)

IsConstant(x, c) ==
    /\ x.status = "ok" /\ x.ndim = 2 /\ ~Empty(x)
    /\ \A y \in 1..x.ny, z \in 1..x.nx : x.v[y][z] = IntNum(c)

Ones4x4 == Filled("one", 4, 4)

\* C9: for the 4 x 4 field of ones, radial_mean(compute_spectrum(field)) has bin 0
\* equal to 16 and every other bin equal to 0.
C9_Bin0Is16 ==
    (stage = "radial" /\ arr = Ones4x4 /\ width <= 0)
        => /\ cur.status = "ok" /\ Len(cur.v) >= 1
           /\ cur.v[1] = IntNum(16)
           /\ \A b \in 2..Len(cur.v) : cur.v[b] = IntNum(0)

\* C9 as amended: for the 4 x 4 field of ones, radial_mean(compute_spectrum(field))
\* has bin 0 equal to 256, the square of the sum of the 16 samples, and every other
\* bin equal to 0.
C9_Bin0Is256 ==
    (stage = "radial" /\ arr = Ones4x4 /\ width <= 0)
        => /\ cur.status = "ok" /\ Len(cur.v) >= 1
           /\ cur.v[1] = IntNum(256)
           /\ \A b \in 2..Len(cur.v) : cur.v[b] = IntNum(0)

\* C9 witness: the radial profile of the untrimmed 4 x 4 field of ones is there
C9_Witness ==
    /\ stage = "radial" /\ arr = Ones4x4 /\ width = 0
    /\ cur.status = "ok" /\ Len(cur.v) = 3 /\ cur.v[1] = IntNum(256)

\* the cells (y, x) whose distance from (ny div 2, nx div 2), rounded down, is b
BinCells(ny, nx, b) ==
    {p \in (0..(ny - 1)) \X (0..(nx - 1)) :
        LET d2 == (p[2] - nx \div 2) * (p[2] - nx \div 2)
                    + (p[1] - ny \div 2) * (p[1] - ny \div 2)
        IN  b * b <= d2 /\ d2 < (b + 1) * (b + 1)}

RECURSIVE SumOver(_, _)
SumOver(v, cells) ==
    IF cells = {} THEN IntNum(0)
    ELSE LET p == CHOOSE p \in cells : TRUE
         IN  NumAdd(v[p[1] + 1][p[2] + 1], SumOver(v, cells \ {p}))

\* C10: entry r of radial_mean's result is the sum of the spectrum over the cells
\* whose distance from (ny div 2, nx div 2), rounded down, is r, divided by the
\* number of such cells; a bin without cells is 0, and no cell is left out.
C10_RadialMeanIsBinMean ==
    (stage \in {"radial_mean", "radial"} /\ arg.status = "ok" /\ arg.ndim = 2)
        => /\ cur.status = "ok" /\ cur.ndim = 1
           /\ \A b \in 0..(Len(cur.v) - 1) :
                 LET cells == BinCells(arg.ny, arg.nx, b)
                 IN  IF cells = {} THEN cur.v[b + 1] = IntNum(0)
                     ELSE cur.v[b + 1] = NumDiv(SumOver(arg.v, cells), Cardinality(cells))
           /\ \A b \in Len(cur.v)..(arg.ny + arg.nx) : BinCells(arg.ny, arg.nx, b) = {}

\* C10 witness: a profile of a spectrum whose bins hold several unequal cells
C10_Witness ==
    /\ stage = "radial_mean"
    /\ arg = Filled("index", 3, 4)
    /\ cur.status = "ok" /\ Len(cur.v) = 3
    /\ cur.v[2] = IntNum(23) /\ cur.v[3] = IntNum(21)

-----------------------------------------------------------------------------
(* radial_mean on floating-point spectra: np.bincount adds the weights of  *)
(* a bin one by one in ravel order, each addition rounded, and the         *)
(* division by the count is rounded once more.                             *)

\* np.bincount(r.ravel(), weights)[b] over the first cnt cells, in floating point
RECURSIVE BinSumFloat(_, _, _, _, _)
BinSumFloat(v, ny, nx, b, cnt) ==
    IF cnt = 0 THEN Zero
    ELSE LET rest == BinSumFloat(v, ny, nx, b, cnt - 1)
         IN  IF Radius(ny, nx, cnt) = b
             THEN FAdd(rest, v[((cnt - 1) \div nx) + 1][((cnt - 1) % nx) + 1])
             ELSE rest

\* a slip in the last line: the bin totals returned without the division
radial_mean_float_undivided(power_spectrum) ==
    IF power_spectrum.ndim # 2 THEN RaiseA("ValueError")
    ELSE LET ny == power_spectrum.ny
             nx == power_spectrum.nx
             len == BinCountLen(ny, nx, ny * nx)
         IN  Array1([b \in 1..len |-> BinSumFloat(power_spectrum.v, ny, nx, b - 1, ny * nx)])

\* a slip in the length: the bins counted up to the larger half side only
radial_mean_float_short(power_spectrum) ==
    IF power_spectrum.ndim # 2 THEN RaiseA("ValueError")
    ELSE LET ny == power_spectrum.ny
             nx == power_spectrum.nx
             len == Max(ny \div 2, nx \div 2) + 1
         IN  Array1([b \in 1..len |->
                 LET tbin == BinSumFloat(power_spectrum.v, ny, nx, b - 1, ny * nx)
                     nr == BinCount(ny, nx, b - 1, ny * nx)
                 IN  FDiv(tbin, Max(nr, 1))])

\* radial_mean of a float64 spectrum
radial_mean_float(power_spectrum) ==
    IF power_spectrum.ndim # 2 THEN RaiseA("ValueError")
    ELSE LET ny == power_spectrum.ny
             nx == power_spectrum.nx
             len == BinCountLen(ny, nx, ny * nx)
         IN  Array1([b \in 1..len |->
                 LET tbin == BinSumFloat(power_spectrum.v, ny, nx, b - 1, ny * nx)
                     nr == BinCount(ny, nx, b - 1, ny * nx)
                 IN  FDiv(tbin, Max(nr, 1))])

\* spectra of every shape up to MaxDim: flat ones, and ones with every other cell 0
FloatVals == DenseVals \cup {Zero, MaxFinite, Fin(-3 * Pow2(Precision - 2), 3 - Precision)}

FloatSpectra ==
    {Array2(ny, nx, [y \in 1..ny |-> [x \in 1..nx |->
                        IF flat \/ (x + y) % 2 = 0 THEN c ELSE Zero]]) :
        ny \in 1..MaxDim, nx \in 1..MaxDim, c \in FloatVals, flat \in BOOLEAN}

InitProfile ==
    /\ arr \in FloatSpectra
    /\ width = 0
    /\ stage = "loaded"
    /\ arg = arr
    /\ cur = arr
    /\ keep_attrs = FALSE /\ src = <<>> /\ calls = <<>>

CallRadialMeanFloat ==
    /\ stage = "loaded"
    /\ arg' = arr
    /\ cur' = radial_mean_float(arr)
    /\ stage' = "radial_mean"
    /\ UNCHANGED <<keep_attrs, src, calls, arr, width>>

NextProfile == CallRadialMeanFloat

SpecProfile == InitProfile /\ [][NextProfile]_vars

\* every cell of the spectrum holds the sample c
IsFlat(x, c) == \A y \in 1..x.ny : \A k \in 1..x.nx : x.v[y][k] = c

\* |r - c| <= n * 2^(1 - Precision) * |c| for finite samples r and c
Near(r, c, n) ==
    /\ r.k = "fin"
    /\ LET e0 == Min(r.e, c.e)
       IN  Abs(r.m * Pow2(r.e - e0) - c.m * Pow2(c.e - e0)) * Pow2(Precision - 1)
               <= n * Abs(c.m) * Pow2(c.e - e0)

\* C11 as stated: every bin of the profile of a flat spectrum equals the flat value
\* (checked on finite values whose bin sums do not overflow).
C11_FlatProfileEqual ==
    (/\ stage = "radial_mean" /\ arg.ny >= 1 /\ arg.nx >= 1
     /\ IsFlat(arg, arg.v[1][1])
     /\ arg.v[1][1].k = "fin"
     /\ arg.ny * arg.nx * Pow2(arg.v[1][1].e) <= Pow2(EMax))
        => /\ cur.status = "ok"
           /\ \A b \in 1..Len(cur.v) : cur.v[b] = arg.v[1][1]

\* C11 amended: for a flat spectrum of the finite value c whose bin sums stay below
\* the largest finite sample, every bin from 0 to the last is finite and within
\* n * 2^(1 - Precision) * |c| of c, n the number of cells of the bin; it is c itself
\* when c is 0 and in bins of one or two cells; no bin of a nonzero c comes out 0.
C11_FlatProfileNear ==
    (/\ stage = "radial_mean" /\ arg.ny >= 1 /\ arg.nx >= 1
     /\ IsFlat(arg, arg.v[1][1])
     /\ arg.v[1][1].k = "fin"
     /\ arg.ny * arg.nx * Pow2(arg.v[1][1].e) <= Pow2(EMax))
        => /\ cur.status = "ok" /\ Len(cur.v) >= 1
           /\ \A b \in 1..Len(cur.v) :
                 LET c == arg.v[1][1]
                     n == BinCount(arg.ny, arg.nx, b - 1, arg.ny * arg.nx)
                 IN  /\ n >= 1
                     /\ Near(cur.v[b], c, n)
                     /\ (c = Zero \/ n <= 2) => cur.v[b] = c
                     /\ c # Zero => cur.v[b] # Zero

\* C11 witness: a flat 4x4 spectrum whose bin of eight cells rounds away from the value
C11_Witness ==
    /\ stage = "radial_mean"
    /\ arg.ny = 4 /\ arg.nx = 4 /\ IsFlat(arg, arg.v[1][1])
    /\ arg.v[1][1].k = "fin" /\ arg.v[1][1].e = 1 - Precision
    /\ Len(cur.v) = 3
    /\ cur.v[1] = arg.v[1][1] /\ cur.v[2] # arg.v[1][1]

\* squared distance from the center (ny div 2, nx div 2) to the farthest corner cell
FarthestCornerSquared(ny, nx) ==
    LET dy == Max(ny \div 2, ny - 1 - ny \div 2)
        dx == Max(nx \div 2, nx - 1 - nx \div 2)
    IN  dy * dy + dx * dx

\* C12: the profile of an (ny, nx) spectrum has floor(max_radius) + 1 bins, max_radius
\* the distance from the center (ny div 2, nx div 2) to the farthest corner cell.
C12_ProfileLength ==
    (stage = "radial_mean" /\ arg.ny >= 1 /\ arg.nx >= 1)
        => /\ cur.status = "ok" /\ cur.ndim = 1
           /\ Len(cur.v) = ISqrt(FarthestCornerSquared(arg.ny, arg.nx)) + 1

\* C12 witness: a 5x6 spectrum, whose farthest corner is sqrt(13) away: 4 bins
C12_Witness ==
    /\ stage = "radial_mean"
    /\ arg.ny = 5 /\ arg.nx = 6
    /\ cur.status = "ok" /\ Len(cur.v) = 4

-----------------------------------------------------------------------------
(* Shape, sign and rank dispatch of the spectrum engine.                   *)

\* (p + q * sqrt(3)) / d >= 0, which no nan satisfies
NonNegative(u) ==
    /\ u.d > 0
    /\ \/ u.p >= 0 /\ u.q >= 0
       \/ u.p >= 0 /\ u.q < 0 /\ u.p * u.p >= 3 * u.q * u.q
       \/ u.p < 0 /\ u.q > 0 /\ 3 * u.q * u.q >= u.p * u.p

\* C13: the spectrum of a 2D field has the field's shape, the spectrum of a 3D field
\* the shape of one time slice, and every entry of it is >= 0.
C13_SpectrumShapeAndSign ==
    (/\ stage \in {"spectrum", "compute_spectrum"}
     /\ arg.status = "ok" /\ arg.ndim \in {2, 3} /\ ~Empty(arg))
        => /\ cur.status = "ok" /\ cur.ndim = 2
           /\ cur.ny = arg.ny /\ cur.nx = arg.nx
           /\ Len(cur.v) = arg.ny
           /\ \A y \in 1..arg.ny :
                 /\ Len(cur.v[y]) = arg.nx
                 /\ \A x \in 1..arg.nx : NonNegative(cur.v[y][x])

\* the sum of cell (y, x) of a 3D array over the time slices in T
RECURSIVE SumTimes(_, _, _, _)
SumTimes(v, y, x, T) ==
    IF T = {} THEN IntNum(0)
    ELSE LET t == CHOOSE t \in T : TRUE
         IN  NumAdd(v[t][y][x], SumTimes(v, y, x, T \ {t}))

\* the mean over the leading axis, cell by cell
TimeMeanOf(a) ==
    Array2(a.ny, a.nx,
           [y \in 1..a.ny |-> [x \in 1..a.nx |->
               NumDiv(SumTimes(a.v, y, x, 1..a.nt), a.nt)]])

\* C14: compute_spectrum dispatches on rank only: a 2D field gives a spectrum, a 3D
\* field gives the spectrum of its mean over the leading axis, any other rank raises
\* the dimension error; radial_mean raises it for every input that is not 2D.
C14_RankDispatch ==
    /\ (stage \in {"spectrum", "compute_spectrum"} /\ arg.status = "ok")
          => /\ arg.ndim = 2 /\ ~Empty(arg) => cur.status = "ok" /\ cur.ndim = 2
             /\ arg.ndim = 3 => cur = compute_spectrum(TimeMeanOf(arg))
             /\ arg.ndim \notin {2, 3} => cur.status = "ValueError" /\ cur.v = <<>>
    /\ (stage \in {"radial", "radial_mean"} /\ arg.status = "ok")
          => /\ arg.ndim = 2 => cur.status = "ok"
             /\ arg.ndim # 2 => cur.status = "ValueError" /\ cur.v = <<>>

\* C14 witness: a 3D field of two unequal slices went through compute_spectrum
C14_Witness ==
    /\ stage = "compute_spectrum"
    /\ arg.status = "ok" /\ arg.ndim = 3 /\ arg.nt = 2 /\ arg.ny = 2 /\ arg.nx = 3
    /\ arg.v[1] # arg.v[2]
    /\ cur.status = "ok" /\ cur.ny = 2 /\ cur.nx = 3
    /\ cur # compute_spectrum(Array2(2, 3, arg.v[1]))

-----------------------------------------------------------------------------
(* load_mpas_rate: accumulated rain to a rate.  Accumulations are whole    *)
(* millimetres, time stamps whole seconds, rates exact fractions p / d     *)
(* (the numbers of the spectrum engine with q = 0; d = 0 is np.nan).       *)

\* largest number of samples on the time axis
MaxSteps == 3

Rat(p, d) == IF d < 0 THEN Num(-p, 0, -d) ELSE Num(p, 0, d)

\* DataArray.diff(tname) of a sequence of integers: entry i is v[i + 1] - v[i]
Diff(v) == [i \in 1..(Len(v) - 1) |-> v[i + 1] - v[i]]

\* a slip in the time step: the first interval taken as the cadence of all
_hours_between_fixed(times) ==
    [i \in 1..(Len(times) - 1) |-> Rat(Diff(times)[1], 3600)]

\* (dt / np.timedelta64(1, "s")).astype("float64") / 3600.0
_hours_between(times) ==
    [i \in 1..(Len(times) - 1) |-> Rat(Diff(times)[i], 3600)]

\* inc / hours of one interval; hours = 0 gives inf or nan, here without a value
RateOf(inc, h) == IF h.p = 0 \/ h.d = 0 THEN NumNaN ELSE Rat(inc * h.d, h.p)

\* a slip in the reset filter: rate_h.where(rate_h > 0), which drops dry intervals too
DropNegative_strict(r) == IF r.d = 0 \/ r.p <= 0 THEN NumNaN ELSE r

\* rate_h.where(rate_h >= 0) on one entry
DropNegative(r) == IF r.d = 0 \/ r.p < 0 THEN NumNaN ELSE r

\* rate_h * 24.0 on one entry
Times24(r) == IF r.d = 0 THEN NumNaN ELSE Num(24 * r.p, 0, r.d)

\* sum and count of the entries of v[1..t] that have a value
RECURSIVE SkipNaSum(_, _)
SkipNaSum(v, t) ==
    IF t = 0 THEN <<IntNum(0), 0>>
    ELSE LET rest == SkipNaSum(v, t - 1)
         IN  IF v[t].d = 0 THEN rest ELSE <<NumAdd(rest[1], v[t]), rest[2] + 1>>

\* out.mean(tname), skipna: nan when no entry has a value
MeanSkipNa(v) ==
    LET sc == SkipNaSum(v, Len(v))
    IN  IF sc[2] = 0 THEN NumNaN ELSE NumDiv(sc[1], sc[2])

\* the result of load_mpas_rate: a series along time, or its mean
Rates(t, v) == [status |-> "ok", time |-> t, vals |-> v]
RaiseR(err) == [status |-> err, time |-> "none", vals |-> <<>>]

load_mpas_rate(ds, out_unit, time_mean, drop_negative_increments) ==
    IF ds.tname \notin {"time", "Time", "valid_time"} THEN RaiseR("KeyError")
    ELSE IF ~ds.has_rainc \/ ~ds.has_rainnc THEN RaiseR("KeyError")
    ELSE LET acc == [i \in 1..Len(ds.times) |-> ds.rainc[i] + ds.rainnc[i]]
             inc == Diff(acc)
             hours == _hours_between(ds.times)
             rate_h == [i \in 1..Len(inc) |-> RateOf(inc[i], hours[i])]
             kept == IF drop_negative_increments
                     THEN [i \in 1..Len(inc) |-> DropNegative(rate_h[i])]
                     ELSE rate_h
             out_unit_norm == Lower(Strip(out_unit))
         IN  IF out_unit_norm \in {mm_h, mmhr, mm_per_hour}
                  THEN IF time_mean THEN Rates("none", <<MeanSkipNa(kept)>>)
                       ELSE Rates(ds.tname, kept)
             ELSE IF out_unit_norm \in {mm_d, mm_day, mm_per_day}
                  THEN LET out == [i \in 1..Len(inc) |-> Times24(kept[i])]
                       IN  IF time_mean THEN Rates("none", <<MeanSkipNa(out)>>)
                           ELSE Rates(ds.tname, out)
             ELSE RaiseR("ValueError")

\* time stamps, in seconds: half an hour, an hour and three hours apart
Stamps == {0, 1800, 3600, 7200, 18000}

RECURSIVE Increasing(_)
Increasing(t) == Len(t) <= 1 \/ (t[1] < t[2] /\ Increasing(Tail(t)))

\* MPAS files: a time axis of 1..MaxSteps stamps and the two accumulators on it
MpasFiles ==
    UNION {{[tname |-> "Time", has_rainc |-> TRUE, has_rainnc |-> TRUE,
             times |-> t, rainc |-> c, rainnc |-> nc] :
               t \in {u \in [1..n -> Stamps] : Increasing(u)},
               c \in [1..n -> {0, 1, 4}], nc \in [1..n -> {0, 3}]} : n \in 1..MaxSteps}
    \cup {[tname |-> tn, has_rainc |-> hc, has_rainnc |-> hnc,
            times |-> <<0, 3600>>, rainc |-> <<0, 1>>, rainnc |-> <<3, 3>>] :
               tn \in {"time", "valid_time", "none"}, hc \in BOOLEAN, hnc \in BOOLEAN}

InitMpas ==
    /\ src \in MpasFiles
    /\ arg = src
    /\ cur = src
    /\ calls = <<>>
    /\ keep_attrs = FALSE /\ arr = <<>> /\ width = 0 /\ stage = "idle"

CallLoadMpasRate ==
    /\ calls = <<>>
    /\ \E out_unit \in {mm_h, mm_day, <<" ","M","M","/","D","a","y"," ">>, mm_s} :
       \E time_mean \in BOOLEAN, drop \in BOOLEAN :
          /\ cur' = load_mpas_rate(src, out_unit, time_mean, drop)
          /\ calls' = <<[op |-> "load_mpas_rate", unit |-> out_unit,
                         time_mean |-> time_mean, drop |-> drop]>>
    /\ arg' = src
    /\ UNCHANGED <<keep_attrs, src, arr, width, stage>>

NextMpas == CallLoadMpasRate

SpecMpas == InitMpas /\ [][NextMpas]_vars

\* the accumulated rain and the time step of interval i of the file, from its columns
IncOf(ds, i) == (ds.rainc[i + 1] + ds.rainnc[i + 1]) - (ds.rainc[i] + ds.rainnc[i])
SecondsOf(ds, i) == ds.times[i + 1] - ds.times[i]

WellFormed(ds) ==
    ds.tname \in {"time", "Time", "valid_time"} /\ ds.has_rainc /\ ds.has_rainnc

\* C15: for a time axis of N samples the rate series of load_mpas_rate has N - 1
\* entries, and entry i is (acc[i+1] - acc[i]) over the hours between stamp i and
\* stamp i + 1, interval by interval, acc being rainc + rainnc.
C15_RatePerInterval ==
    (/\ Called("load_mpas_rate") /\ WellFormed(src)
     /\ LastCall.unit = mm_h /\ ~LastCall.time_mean /\ ~LastCall.drop)
        => /\ cur.status = "ok"
           /\ Len(cur.vals) = Len(src.times) - 1
           /\ \A i \in 1..(Len(src.times) - 1) :
                 /\ cur.vals[i].d > 0 /\ cur.vals[i].q = 0
                 /\ cur.vals[i].p * SecondsOf(src, i)
                        = 3600 * IncOf(src, i) * cur.vals[i].d

\* C15 witness: three stamps half an hour and then four and a half hours apart
C15_Witness ==
    /\ Called("load_mpas_rate")
    /\ LastCall.unit = mm_h /\ ~LastCall.time_mean /\ ~LastCall.drop
    /\ src.times = <<0, 1800, 18000>>
    /\ src.rainc = <<0, 1, 4>> /\ src.rainnc = <<0, 3, 3>>
    /\ cur.status = "ok" /\ cur.vals = <<IntNum(8), Num(2, 0, 3)>>

\* the sum of the fractions w[i], i in S
RECURSIVE SumRates(_, _)
SumRates(w, S) ==
    IF S = {} THEN IntNum(0)
    ELSE LET i == CHOOSE i \in S : TRUE
         IN  NumAdd(w[i], SumRates(w, S \ {i}))

\* C16: with drop_negative_increments every negative interval rate becomes undefined
\* and is left out of the time mean, every rate >= 0 is kept as it is; without it
\* every rate is kept; the factor 24 of mm/day is applied to what this step keeps.
C16_DropNegativeIncrements ==
    (Called("load_mpas_rate") /\ cur.status = "ok")
        => LET n == Len(src.times) - 1
               f == IF Lower(Strip(LastCall.unit)) = mm_h THEN 1 ELSE 24
               dropped == {i \in 1..n : LastCall.drop /\ IncOf(src, i) < 0}
               kept == (1..n) \ dropped
               expected == [i \in 1..n |->
                              Rat(f * 3600 * IncOf(src, i), SecondsOf(src, i))]
           IN  IF ~LastCall.time_mean
               THEN /\ Len(cur.vals) = n
                    /\ \A i \in dropped : cur.vals[i] = NumNaN
                    /\ \A i \in kept : cur.vals[i] = expected[i]
               ELSE /\ Len(cur.vals) = 1
                    /\ kept = {} => cur.vals[1] = NumNaN
                    /\ kept # {} =>
                          cur.vals[1] = NumDiv(SumRates(expected, kept), Cardinality(kept))

\* C16 witness: an accumulator reset between the first two stamps, dropped from the
\* mm/day mean of the run
C16_Witness ==
    /\ Called("load_mpas_rate")
    /\ LastCall.unit = mm_day /\ LastCall.time_mean /\ LastCall.drop
    /\ src.times = <<0, 3600, 7200>>
    /\ src.rainc = <<1, 0, 4>> /\ src.rainnc = <<3, 0, 3>>
    /\ cur.status = "ok" /\ cur.vals = <<IntNum(168)>>

-----------------------------------------------------------------------------
(* scripts.cli: main dispatches on the subcommand and starts the stage     *)
(* scripts with _run, one child process at a time (subprocess.run with     *)
(* check=True waits for the child and raises when it exits non-zero).      *)

\* the options each stage script declares; all of them take one value but the
\* store_true switches, and no stage script declares a positional argument
ScriptOptions(modname) ==
    CASE modname = "regrid" -> {"--gpm", "--mpas", "--weights", "--root", "--out-unit"}
      [] modname = "smooth" -> {"--sigma", "--root", "--n_jobs"}
      [] modname = "compare" -> {"--mpas", "--gpm-file", "--style", "--root"}
      [] modname = "spectral" -> {"--mpas", "--gpm-file", "--unit", "--trim", "--style",
                                  "--root", "--outfile"}
      [] OTHER -> {}

ScriptSwitches(modname) ==
    CASE modname = "regrid" -> {"--time-mean", "--periodic"}
      [] modname = "spectral" -> {"--normalize", "--show-2d"}
      [] OTHER -> {}

ScriptRequired(modname) ==
    CASE modname = "regrid" -> {"--gpm", "--mpas"}
      [] modname \in {"compare", "spectral"} -> {"--mpas"}
      [] OTHER -> {}

\* the tokens that start with "--"
IsOption(tok) ==
    \E modname \in {"regrid", "smooth", "compare", "spectral"} :
        tok \in ScriptOptions(modname) \cup ScriptSwitches(modname)

\* parser.parse_args() of the stage script on argv[i..]: TRUE when argparse accepts
RECURSIVE ArgsAccepted(_, _, _)
ArgsAccepted(modname, argv, i) ==
    IF i > Len(argv) THEN TRUE
    ELSE IF argv[i] \in ScriptSwitches(modname) THEN ArgsAccepted(modname, argv, i + 1)
    ELSE IF argv[i] \in ScriptOptions(modname)
         THEN i + 1 <= Len(argv) /\ ~IsOption(argv[i + 1])
              /\ ArgsAccepted(modname, argv, i + 2)
    ELSE FALSE

ParserAccepts(modname, argv) ==
    /\ ArgsAccepted(modname, argv, 1)
    /\ \A o \in ScriptRequired(modname) : \E i \in 1..Len(argv) : argv[i] = o

\* the exit codes a child can end with: 2 from argparse when it rejects the
\* arguments, else 0 or 1 as the work of the stage goes
ExitCodes(modname, argv) == IF ParserAccepts(modname, argv) THEN {0, 1} ELSE {2}

\* (["--root", args.root] if args.root else [])
RootArgs(args) == IF args.root # "" THEN <<"--root", args.root>> ELSE <<>>

\* cli._run(modname, args) with a child that exits with rc: the record of the
\* launch, and where main is afterwards
Launched(modname, argv, rc) == [modname |-> modname, argv |-> argv, rc |-> rc]

\* the command lines main can be given
CliArgs ==
    {[cmd |-> c, gpm |-> "gpm.nc", mpas |-> m, weights |-> w, root |-> r,
      sigma |-> "-", style |-> "-", mode |-> "-", trim |-> "-"] :
        c \in {"regrid", "run-all"}, m \in {"mpas.nc", "x1.nc"},
        w \in {"data_processed/weights_gpm_to_mpas.nc", "w.nc"}, r \in {"", "/proj"}}
    \cup {[cmd |-> "smooth", gpm |-> "-", mpas |-> "-", weights |-> "-", root |-> r,
           sigma |-> sg, style |-> "-", mode |-> "-", trim |-> "-"] :
        sg \in {"1.0", "2.5"}, r \in {"", "/proj"}}
    \cup {[cmd |-> "compare", gpm |-> "-", mpas |-> "mpas.nc", weights |-> "-", root |-> r,
           sigma |-> "-", style |-> st, mode |-> "-", trim |-> "-"] :
        st \in {"black", "light"}, r \in {"", "/proj"}}
    \cup {[cmd |-> "spectral", gpm |-> "-", mpas |-> "mpas.nc", weights |-> "-", root |-> r,
           sigma |-> sg, style |-> "-", mode |-> md, trim |-> tr] :
        sg \in {"1.0", "2.5"}, md \in {"power", "efficiency", "all"},
        tr \in {"10", "0"}, r \in {"", "/proj"}}

InitCli ==
    /\ src \in CliArgs
    /\ stage = "main"
    /\ calls = <<>>
    /\ cur = "running"
    /\ arg = src
    /\ keep_attrs = FALSE /\ arr = <<>> /\ width = 0

\* a slip in _run: subprocess.run without check=True, the exit code ignored
Run_unchecked(at, modname, argv, next) ==
    /\ stage = at
    /\ \E rc \in ExitCodes(modname, argv) :
          /\ calls' = Append(calls, Launched(modname, argv, rc))
          /\ stage' = next
          /\ cur' = IF next = "done" THEN "exit 0" ELSE cur
    /\ UNCHANGED <<keep_attrs, src, arg, arr, width>>

\* _run(modname, argv) called by main at position `at`; main goes on to `next` when
\* the child exits 0, and ends with the CalledProcessError otherwise
Run(at, modname, argv, next) ==
    /\ stage = at
    /\ \E rc \in ExitCodes(modname, argv) :
          /\ calls' = Append(calls, Launched(modname, argv, rc))
          /\ stage' = IF rc = 0 THEN next ELSE "failed"
          /\ cur' = IF rc # 0 THEN "exit 1" ELSE IF next = "done" THEN "exit 0" ELSE cur
    /\ UNCHANGED <<keep_attrs, src, arg, arr, width>>

RegridArgs(args) ==
    <<"--gpm", args.gpm, "--mpas", args.mpas, "--weights", args.weights>> \o RootArgs(args)

CliRegrid ==
    /\ src.cmd = "regrid"
    /\ Run("main", "regrid", RegridArgs(src), "done")

CliSmooth ==
    /\ src.cmd = "smooth"
    /\ Run("main", "smooth", <<"--sigma", src.sigma>> \o RootArgs(src), "done")

CliCompare ==
    /\ src.cmd = "compare"
    /\ Run("main", "compare",
           <<"--mpas", src.mpas, "--style", src.style>> \o RootArgs(src), "done")

CliSpectral ==
    /\ src.cmd = "spectral"
    /\ Run("main", "spectral",
           <<src.mode, "--mpas", src.mpas, "--trim", src.trim, "--sigma", src.sigma>>
               \o RootArgs(src), "done")

RunAllRegrid ==
    /\ src.cmd = "run-all"
    /\ Run("main", "regrid", RegridArgs(src), "regrid done")

RunAllSmooth ==
    /\ src.cmd = "run-all"
    /\ Run("regrid done", "smooth", RootArgs(src), "smooth done")

RunAllCompare ==
    /\ src.cmd = "run-all"
    /\ Run("smooth done", "compare", <<"--mpas", src.mpas>> \o RootArgs(src), "compare done")

RunAllSpectral ==
    /\ src.cmd = "run-all"
    /\ Run("compare done", "spectral", <<"all", "--mpas", src.mpas>> \o RootArgs(src), "done")

NextCli ==
    \/ CliRegrid
    \/ CliSmooth
    \/ CliCompare
    \/ CliSpectral
    \/ RunAllRegrid
    \/ RunAllSmooth
    \/ RunAllCompare
    \/ RunAllSpectral

SpecCli == InitCli /\ [][NextCli]_vars

RunAllOrder == <<"regrid", "smooth", "compare", "spectral">>

\* C17: run-all launches regrid, smooth, compare, spectral in this order, each only
\* after the one before exited with success; once a stage exits with failure nothing
\* more is launched and the invocation ends in failure.
C17_RunAllInOrder ==
    src.cmd = "run-all"
        => /\ Len(calls) <= 4
           /\ \A i \in 1..Len(calls) : calls[i].modname = RunAllOrder[i]
           /\ \A i \in 1..(Len(calls) - 1) : calls[i].rc = 0
           /\ (calls # <<>> /\ calls[Len(calls)].rc # 0)
                 => stage = "failed" /\ cur = "exit 1" /\ ~ENABLED NextCli
           /\ cur = "exit 0" => Len(calls) = 4 /\ calls[4].rc = 0

\* C17 witness: regrid and smooth succeeded, compare failed, and the run is over
C17_Witness ==
    /\ src.cmd = "run-all"
    /\ Len(calls) = 3
    /\ calls[1].rc = 0 /\ calls[2].rc = 0 /\ calls[3].modname = "compare" /\ calls[3].rc = 1
    /\ stage = "failed" /\ cur = "exit 1"

-----------------------------------------------------------------------------
(* One run of a stage script (regrid, smooth, compare, spectral) against   *)
(* the filesystem: the set of files and directories that exist.  src is    *)
(* the stage and its weights location, arr the filesystem when the stage   *)
(* starts, cur the filesystem now, stage the position in main.             *)

StageNames == {"regrid", "smooth", "compare", "spectral"}

\* the file the stage saves at its end
OutputOf(modname) ==
    CASE modname = "regrid" -> "data_processed/gpm_remap_to_mpas_timeseries.nc"
      [] modname = "smooth" -> "data_processed/gpm_smoothed.nc"
      [] modname = "compare" -> "figs/comparacao_gpm_mpas_black.png"
      [] OTHER -> "figs/espectros_precipitacao_black.png"

\* Path(args.weights).parent: data_processed/ of the project, or another directory
WeightsDir(run) == IF run.weights_in_data_dir THEN "data_processed/" ELSE "weights/"
WeightsFile(run) == IF run.weights_in_data_dir THEN "data_processed/weights_gpm_to_mpas.nc"
                    ELSE "weights/w.nc"

ParentOf(path) ==
    CASE path \in {"data_processed/gpm_remap_to_mpas_timeseries.nc",
                   "data_processed/gpm_smoothed.nc",
                   "data_processed/weights_gpm_to_mpas.nc"} -> "data_processed/"
      [] path \in {"figs/comparacao_gpm_mpas_black.png",
                   "figs/espectros_precipitacao_black.png"} -> "figs/"
      [] path = "weights/w.nc" -> "weights/"
      [] OTHER -> path

AllPaths ==
    {"data_processed/", "figs/", "weights/", "weights/w.nc",
     "data_processed/weights_gpm_to_mpas.nc"} \cup {OutputOf(m) : m \in StageNames}

\* the filesystems a stage can find: every file lies in a directory that exists
Filesystems == {fs \in SUBSET AllPaths : \A f \in fs : ParentOf(f) \in fs}

\* resolve_paths: data_dir.mkdir(exist_ok=True, parents=True), and figs_dir likewise
resolve_paths(fs) == fs \cup {"data_processed/", "figs/"}

InitStage ==
    /\ src \in {[modname |-> m, weights_in_data_dir |-> w] :
                   m \in StageNames, w \in BOOLEAN}
    /\ arr \in Filesystems
    /\ cur = arr
    /\ stage = "start"
    /\ arg = <<>> /\ calls = <<>> /\ keep_attrs = FALSE /\ width = 0

\* P = resolve_paths(args.root), the first statement of every main after the parse
StageResolvePaths ==
    /\ stage = "start"
    /\ cur' = resolve_paths(cur)
    /\ stage' = "paths"
    /\ calls' = Append(calls, "resolve_paths")
    /\ UNCHANGED <<keep_attrs, src, arg, arr, width>>

\* the inputs are opened and read (load_gpm_rate, xr.open_dataset, _pick_var,
\* pick_latlon, load_mpas_rate); any of them may raise
StageLoad ==
    /\ stage = "paths"
    /\ \E ok \in BOOLEAN : stage' = IF ok THEN "loaded" ELSE "failed"
    /\ calls' = Append(calls, "load")
    /\ UNCHANGED <<keep_attrs, src, arg, arr, cur, width>>

\* regrid: weights_path.parent.mkdir, then xe.Regridder(..., filename=weights_path),
\* which reads the weights file when it exists and computes and writes it when not
RegridBuildRegridder ==
    /\ stage = "loaded" /\ src.modname = "regrid"
    /\ \E ok \in BOOLEAN :
          /\ stage' = IF ok THEN "ready" ELSE "failed"
          /\ cur' = IF ok THEN cur \cup {WeightsDir(src), WeightsFile(src)}
                    ELSE cur \cup {WeightsDir(src)}
    /\ calls' = Append(calls, "regridder")
    /\ UNCHANGED <<keep_attrs, src, arg, arr, width>>

\* the computation of the stage: regridder(gpm_rate); the filters; the unit
\* harmonization and the figure; the spectra and the figure
StageCompute ==
    /\ \/ stage = "ready"
       \/ stage = "loaded" /\ src.modname # "regrid"
    /\ \E ok \in BOOLEAN : stage' = IF ok THEN "computed" ELSE "failed"
    /\ calls' = Append(calls, "compute")
    /\ UNCHANGED <<keep_attrs, src, arg, arr, cur, width>>

\* to_netcdf(out_path) or plt.savefig(out): the file exists on success; a write
\* that fails has created the file or not
StageSave ==
    /\ stage = "computed"
    /\ \E ok \in BOOLEAN, created \in BOOLEAN :
          /\ stage' = IF ok THEN "done" ELSE "failed"
          /\ cur' = IF ok \/ created THEN cur \cup {OutputOf(src.modname)} ELSE cur
    /\ calls' = Append(calls, "save")
    /\ UNCHANGED <<keep_attrs, src, arg, arr, width>>

NextStage ==
    \/ StageResolvePaths
    \/ StageLoad
    \/ RegridBuildRegridder
    \/ StageCompute
    \/ StageSave

SpecStage == InitStage /\ [][NextStage]_vars

\* C18: a stage that fails leaves no file or directory behind that did not exist
\* when it started; a stage writes only once all of its computation has succeeded.
C18_NoWriteBeforeSuccess ==
    /\ stage = "failed" => cur = arr
    /\ stage \in {"paths", "loaded", "ready"} => cur = arr

-----------------------------------------------------------------------------
(* smooth._smooth_timeseries: one apply_filters job per time slice, run by *)
(* joblib.Parallel on n_jobs workers.  src is the call (the (time, y, x)   *)
(* field da as a sequence of 2D slices, and sigma), width is n_jobs, arg   *)
(* the slices not yet dispatched, cur the jobs running, arr the results    *)
(* joblib holds (by position of the job in the submission order), calls    *)
(* the order in which the jobs finished; on return arg holds the two       *)
(* stacked outputs.                                                        *)

\* largest number of time slices of the field
MaxSlices == 3
\* processors of the machine, which negative n_jobs counts from
Cpus == 2
\* largest n_jobs
MaxJobs == 3

\* index of the nearest cell inside 1..n (mode="nearest")
Nearest(i, n) == IF i < 1 THEN 1 ELSE IF i > n THEN n ELSE i

\* uniform_filter(slice_2d, size=3, mode="nearest"): the mean of the 3x3
\* neighbourhood of each cell, the border extended by the nearest cell
uniform_filter(slice_2d) ==
    LET ny == Len(slice_2d)
        nx == Len(slice_2d[1])
        at(y, x) == slice_2d[Nearest(y, ny)][Nearest(x, nx)]
        row(y, x) == at(y, x - 1) + at(y, x) + at(y, x + 1)
    IN [y \in 1..ny |-> [x \in 1..nx |->
            Rat(row(y - 1, x) + row(y, x) + row(y + 1, x), 9)]]

\* gaussian_filter(slice_2d, sigma, mode="nearest"): the kernel weights are
\* not rational, so the result is kept as the application it is
gaussian_filter(slice_2d, sigma) ==
    [filter |-> "gaussian_filter", sigma |-> sigma, input |-> slice_2d]

apply_filters(slice_2d, sigma) ==
    <<uniform_filter(slice_2d), gaussian_filter(slice_2d, sigma)>>

\* joblib's number of workers: n_jobs < 0 counts back from the processors
EffectiveJobs(n_jobs) == IF n_jobs < 0 THEN Max(Cpus + 1 + n_jobs, 1) ELSE n_jobs

\* a slip in the collection: the results taken in the order the jobs finished
Results_as_completed(done, finished) == [i \in 1..Len(finished) |-> done[finished[i]]]

\* the list Parallel returns: the results in the order the jobs were submitted
Results(done, finished) == [i \in 1..Len(finished) |-> done[i]]

\* 1x2 slices
Slices == {<<<<a, b>>>> : a \in {0, 3}, b \in {0, 3}}

Fields == UNION {[1..n -> Slices] : n \in 0..MaxSlices}

InitSmooth ==
    /\ src \in {[da |-> f, sigma |-> sg] : f \in Fields, sg \in {1, 2}}
    /\ width \in -1..MaxJobs
    /\ stage = "call"
    /\ arg = <<>> /\ cur = {} /\ arr = <<>> /\ calls = <<>> /\ keep_attrs = FALSE

\* Parallel(n_jobs=n_jobs)(...): n_jobs = 0 is refused with ValueError; else
\* the jobs for t = 0 .. sizes["time"] - 1 are queued in that order
SmoothCall ==
    /\ stage = "call"
    /\ IF width = 0
       THEN stage' = "raised" /\ arg' = arg
       ELSE stage' = "running" /\ arg' = [t \in 1..Len(src.da) |-> t]
    /\ UNCHANGED <<keep_attrs, src, cur, calls, arr, width>>

\* the next job is handed to a free worker with its own da.isel(time=t).values
JobStart ==
    /\ stage = "running"
    /\ arg # <<>>
    /\ Cardinality(cur) < EffectiveJobs(width)
    /\ cur' = cur \cup {[t |-> Head(arg), slice_2d |-> src.da[Head(arg)]]}
    /\ arg' = Tail(arg)
    /\ UNCHANGED <<keep_attrs, src, calls, arr, width, stage>>

\* any running job finishes: its result is stored under its own position
JobFinish ==
    /\ stage = "running"
    /\ \E job \in cur :
          /\ cur' = cur \ {job}
          /\ arr' = [t \in DOMAIN arr \cup {job.t} |->
                        IF t = job.t THEN apply_filters(job.slice_2d, src.sigma)
                        ELSE arr[t]]
          /\ calls' = Append(calls, job.t)
    /\ UNCHANGED <<keep_attrs, src, arg, width, stage>>

\* all jobs done: mov_stack, gau_stack = zip(*results) needs at least one
\* result to unpack; np.stack of each
SmoothReturn ==
    /\ stage = "running"
    /\ arg = <<>> /\ cur = {}
    /\ LET results == Results(arr, calls)
       IN IF Len(results) = 0
          THEN stage' = "raised" /\ arg' = arg
          ELSE /\ stage' = "returned"
               /\ arg' = [mov |-> [t \in 1..Len(results) |-> results[t][1]],
                          gau |-> [t \in 1..Len(results) |-> results[t][2]]]
    /\ UNCHANGED <<keep_attrs, src, cur, calls, arr, width>>

NextSmooth ==
    \/ SmoothCall
    \/ JobStart
    \/ JobFinish
    \/ SmoothReturn

SpecSmooth == InitSmooth /\ [][NextSmooth]_vars

\* every job, running or finished, works on its own slice and has its own result
JobsIndependent ==
    stage = "running" =>
        /\ \A job \in cur : job.slice_2d = src.da[job.t]
        /\ \A job \in cur : job.t \notin DOMAIN arr
        /\ \A t \in DOMAIN arr : arr[t] = apply_filters(src.da[t], src.sigma)

\* slice t of both outputs is the filter result of input slice t
OutputsInTimeOrder ==
    stage = "returned" =>
        /\ Len(arg.mov) = Len(src.da) /\ Len(arg.gau) = Len(src.da)
        /\ \A t \in 1..Len(src.da) :
              /\ arg.mov[t] = uniform_filter(src.da[t])
              /\ arg.gau[t] = gaussian_filter(src.da[t], src.sigma)

\* C19 as stated: for every number of workers (n_jobs other than 0) and every
\* finishing order, _smooth_timeseries returns outputs with as many slices as
\* the input, slice t the filter result of input slice t, the jobs independent.
C19_EverySeriesSmoothed ==
    /\ JobsIndependent
    /\ OutputsInTimeOrder
    /\ width # 0 => stage # "raised"

\* C19 amended: the same for an input with at least one time slice; an input
\* with no time slice makes _smooth_timeseries raise.
C19_SlicesInTimeOrder ==
    /\ JobsIndependent
    /\ OutputsInTimeOrder
    /\ (width # 0 /\ Len(src.da) >= 1) => stage # "raised"
    /\ (width # 0 /\ Len(src.da) = 0 /\ stage # "call") => stage \in {"running", "raised"}

\* C19 witness: three different slices on two workers, the second job
\* finished before the first, and the outputs returned.
C19_Witness ==
    /\ stage = "returned"
    /\ Len(src.da) = 3 /\ src.da[1] # src.da[2] /\ src.da[2] # src.da[3]
    /\ width = 2
    /\ calls[1] = 2

-----------------------------------------------------------------------------
(* spectral_efficiency.py: the radial profiles of the GPM field, of its    *)
(* two smoothings and of the MPAS field, the guard on the MPAS profile and *)
(* the three ratios.  src holds the two fields (the GPM field is the remap *)
(* to the MPAS grid, so both have one shape), arr the four profiles, cur   *)
(* the guarded MPAS profile, arg the three efficiencies.                   *)

\* largest side of the fields of the efficiency script
MaxDimEff == 4

\* a slip in the center: the distance taken from the corner cell (0, 0)
EffRadius_corner(ny, nx, cnt) ==
    LET y == (cnt - 1) \div nx
        x == (cnt - 1) % nx
    IN  ISqrt(x * x + y * y)

\* r.astype(int) of the script's own radial_mean: the distance from the
\* center ((ny - 1) / 2.0, (nx - 1) / 2.0), truncated
EffRadius(ny, nx, cnt) ==
    LET y == (cnt - 1) \div nx
        x == (cnt - 1) % nx
        dy2 == 2 * y - (ny - 1)
        dx2 == 2 * x - (nx - 1)
    IN  ISqrt((dx2 * dx2 + dy2 * dy2) \div 4)

RECURSIVE EffBinCountLen(_, _, _)
EffBinCountLen(ny, nx, cnt) ==
    IF cnt = 0 THEN 0
    ELSE Max(EffRadius(ny, nx, cnt) + 1, EffBinCountLen(ny, nx, cnt - 1))

RECURSIVE EffBinSum(_, _, _, _, _)
EffBinSum(v, ny, nx, b, cnt) ==
    IF cnt = 0 THEN IntNum(0)
    ELSE LET rest == EffBinSum(v, ny, nx, b, cnt - 1)
         IN  IF EffRadius(ny, nx, cnt) = b
             THEN NumAdd(rest, v[((cnt - 1) \div nx) + 1][((cnt - 1) % nx) + 1])
             ELSE rest

RECURSIVE EffBinCount(_, _, _, _)
EffBinCount(ny, nx, b, cnt) ==
    IF cnt = 0 THEN 0
    ELSE EffBinCount(ny, nx, b, cnt - 1) + (IF EffRadius(ny, nx, cnt) = b THEN 1 ELSE 0)

\* radial_mean of spectral_efficiency.py: tbin / np.maximum(nr, 1)
efficiency_radial_mean(power_spectrum) ==
    LET ny == power_spectrum.ny
        nx == power_spectrum.nx
        len == EffBinCountLen(ny, nx, ny * nx)
    IN  [b \in 1..len |->
            NumDiv(EffBinSum(power_spectrum.v, ny, nx, b - 1, ny * nx),
                   Max(EffBinCount(ny, nx, b - 1, ny * nx), 1))]

\* radial_mean(np.abs(fftshift(fft2(field)))**2)
EffSpectrum(field) == efficiency_radial_mean(power_spectrum_2d(field))

\* uniform_filter(prec_gpm, size=3) of a field: the mean of the 3x3
\* neighbourhood, the border extended by its own cell
MovingMean(field) ==
    LET at(y, x) == field.v[Nearest(y, field.ny)][Nearest(x, field.nx)]
        row(y, x) == NumAdd(NumAdd(at(y, x - 1), at(y, x)), at(y, x + 1))
    IN  Array2(field.ny, field.nx,
               [y \in 1..field.ny |-> [x \in 1..field.nx |->
                   NumDiv(NumAdd(NumAdd(row(y - 1, x), row(y, x)), row(y + 1, x)), 9)]])

\* 1e-10, kept with its decimal exponent
Epsilon == [p |-> 1, q |-> 0, d |-> 1, e10 |-> -10]

IsZero(u) == u.d > 0 /\ u.p = 0 /\ u.q = 0
IsNaN(u) == u.d = 0 /\ u.p = 0
NumInf == [p |-> 1, q |-> 0, d |-> 0]

\* a slip in the guard: the profile passed on as it is
Guard_absent(spec_mpas) == spec_mpas

\* np.where(spec_mpas == 0, 1e-10, spec_mpas)
Guard(spec_mpas) ==
    [b \in 1..Len(spec_mpas) |-> IF IsZero(spec_mpas[b]) THEN Epsilon ELSE spec_mpas[b]]

\* one bin of spec / spec_mpas: nan when either is nan, 0/0 nan, x/0 inf,
\* else the quotient, kept as the fraction
Quotient(u, w) ==
    IF IsNaN(u) \/ IsNaN(w) THEN NumNaN
    ELSE IF IsZero(w) THEN (IF IsZero(u) THEN NumNaN ELSE NumInf)
    ELSE [num |-> u, den |-> w]

Efficiency(spec, spec_mpas) == [b \in 1..Len(spec_mpas) |-> Quotient(spec[b], spec_mpas[b])]

EffSizes == {d \in Sizes : d <= MaxDimEff}

InitEfficiency ==
    /\ src \in {[gpm |-> Filled(pg, ny, nx), mpas |-> Filled(pm, ny, nx)] :
                   pg \in Patterns, pm \in Patterns, ny \in EffSizes, nx \in EffSizes}
    /\ stage = "fields"
    /\ arr = <<>> /\ cur = <<>> /\ arg = <<>> /\ calls = <<>>
    /\ keep_attrs = FALSE /\ width = 0

\* lines 42-45.  The Gaussian kernel has irrational weights: its profile is
\* that of some smoothing of the field, between none and the 3x3 mean
EffSpectra ==
    /\ stage = "fields"
    /\ LET spec_gpm == EffSpectrum(src.gpm)
           spec_mov == EffSpectrum(MovingMean(src.gpm))
       IN \E spec_gauss \in {spec_gpm, spec_mov} :
             arr' = [gpm |-> spec_gpm, mov |-> spec_mov, gauss |-> spec_gauss,
                     mpas |-> EffSpectrum(src.mpas)]
    /\ stage' = "spectra"
    /\ UNCHANGED <<keep_attrs, src, arg, cur, calls, width>>

\* line 48
EffGuard ==
    /\ stage = "spectra"
    /\ cur' = Guard(arr.mpas)
    /\ stage' = "guarded"
    /\ UNCHANGED <<keep_attrs, src, arg, calls, arr, width>>

\* lines 51-53
EffRatios ==
    /\ stage = "guarded"
    /\ arg' = [gpm |-> Efficiency(arr.gpm, cur), mov |-> Efficiency(arr.mov, cur),
               gauss |-> Efficiency(arr.gauss, cur)]
    /\ stage' = "ratios"
    /\ UNCHANGED <<keep_attrs, src, cur, calls, arr, width>>

NextEfficiency ==
    \/ EffSpectra
    \/ EffGuard
    \/ EffRatios

SpecEfficiency == InitEfficiency /\ [][NextEfficiency]_vars

\* the guard took the bins equal to 0 to 1e-10 and left the others alone
GuardReplacesZeros ==
    stage \in {"guarded", "ratios"} =>
        /\ Len(cur) = Len(arr.mpas)
        /\ \A b \in 1..Len(cur) :
              /\ ~IsZero(cur[b])
              /\ IsZero(arr.mpas[b]) => cur[b] = Epsilon
              /\ ~IsZero(arr.mpas[b]) => cur[b] = arr.mpas[b]

\* a ratio with a value: neither nan nor inf
Defined(e) == e # NumNaN /\ e # NumInf

HasNaN(field) == \E y \in 1..field.ny : \E x \in 1..field.nx : IsNaN(field.v[y][x])

-----------------------------------------------------------------------------
(* The transforms on objects.  arr is the heap: the DataArrays and         *)
(* ndarrays that exist, an object's reference being its position.  A       *)
(* DataArray owns its samples and its attrs; an ndarray owns its cells or  *)
(* is a view, a slice that reads the cells of its base.  calls records,    *)
(* for every call, the argument, what the argument held when the call was  *)
(* made, and the object returned (0 when the call raised).                 *)

\* largest number of calls on one heap
MaxFrameCalls == 2

DataArrayObj(f) == [kind |-> "DataArray", own |-> f, base |-> 0, n |-> 0]
ArrayObj(a) == [kind |-> "ndarray", own |-> a, base |-> 0, n |-> 0]
\* a[n:-n, n:-n]: basic slicing gives a view of a
ViewObj(base, n) == [kind |-> "ndarray", own |-> RaiseA("view"), base |-> base, n |-> n]

\* what an object holds: its own samples, or the slice of its base
RECURSIVE Deref(_, _)
Deref(heap, r) ==
    IF heap[r].base # 0 THEN trim_edges(Deref(heap, heap[r].base), heap[r].n)
    ELSE heap[r].own

\* how a call ends: a fresh object, an object that existed, or an exception
Alloc(heap, obj) == [heap |-> Append(heap, obj), ref |-> Len(heap) + 1]
Same(heap, r) == [heap |-> heap, ref |-> r]
Raised(heap) == [heap |-> heap, ref |-> 0]

\* _to_mm_per_hour(da): `return da`, or the result of da / 24.0 or da * 3600.0
Heap_to_mm_per_hour(heap, da, keep) ==
    LET out == _to_mm_per_hour(heap[da].own, keep)
    IN  IF out.status # "ok" THEN Raised(heap)
        ELSE IF NormUnits(heap[da].own.units) \in {mm_hr, mm_h} THEN Same(heap, da)
        ELSE Alloc(heap, DataArrayObj(out))

\* a slip in the conversion: da *= 24.0 and da.attrs["units"] = "mm/day", in place
Heap_ensure_unit_mm_per_day_inplace(heap, da, keep) ==
    LET f == heap[da].own
        units == NormUnits(f.units)
    IN  IF units \in {mm_d, mm_day, mm_per_day} THEN Same(heap, da)
        ELSE IF units \in {mm_h, mmhr, mm_per_hour} \/ units = <<>>
             THEN Same([heap EXCEPT ![da].own =
                            Field(mm_day, f.time, MapVals(MulBy24, f.vals))], da)
        ELSE Raised(heap)

\* _ensure_unit_mm_per_day(da): `return da`, or out = da * 24.0 followed by
\* out.attrs["units"] = "mm/day", a write to the attrs of out
Heap_ensure_unit_mm_per_day(heap, da, keep) ==
    LET f == heap[da].own
        units == NormUnits(f.units)
    IN  IF units \in {mm_d, mm_day, mm_per_day} THEN Same(heap, da)
        ELSE IF units \in {mm_h, mmhr, mm_per_hour} \/ units = <<>>
             THEN LET made == Alloc(heap, DataArrayObj(
                                  Field(ResultAttrs(f.units, keep), f.time,
                                        MapVals(MulBy24, f.vals))))
                  IN  [heap |-> [made.heap EXCEPT ![made.ref].own.units = mm_day],
                       ref |-> made.ref]
        ELSE Raised(heap)

\* trim_edges(a, n): `return a`, or the view a[n:-n, n:-n]
Heap_trim_edges(heap, a, n) ==
    IF n <= 0 THEN Same(heap, a) ELSE Alloc(heap, ViewObj(a, n))

\* compute_spectrum(field): mean, fft2, fftshift and abs make new arrays
Heap_compute_spectrum(heap, field) ==
    LET out == compute_spectrum(Deref(heap, field))
    IN  IF out.status # "ok" THEN Raised(heap) ELSE Alloc(heap, ArrayObj(out))

\* radial_mean(power_spectrum): the quotient of two bincounts, a new array
Heap_radial_mean(heap, power_spectrum) ==
    LET out == radial_mean(Deref(heap, power_spectrum))
    IN  IF out.status # "ok" THEN Raised(heap) ELSE Alloc(heap, ArrayObj(out))

FrameFields ==
    {Field(u, t, <<<<x>>>>) : u \in Tags, t \in {"none", "time"},
                               x \in {One, NaN, Zero}}

FrameArrays ==
    {Filled(pat, ny, nx) : pat \in Patterns, ny \in Sizes3, nx \in Sizes3}
    \cup {Filled3(pat, 2, ny, nx) : pat \in {"index", "gap"}, ny \in Sizes3, nx \in Sizes3}

InitFrame ==
    /\ keep_attrs \in BOOLEAN
    /\ arr \in {<<DataArrayObj(f)>> : f \in FrameFields}
              \cup {<<ArrayObj(a)>> : a \in FrameArrays}
    /\ src = arr[1]
    /\ calls = <<>>
    /\ arg = 0 /\ cur = 0 /\ width = 0 /\ stage = "idle"

\* the record of one call and its effect on the heap
FrameCall(op, r, n, done) ==
    /\ Len(calls) < MaxFrameCalls
    /\ arg' = r
    /\ cur' = done.ref
    /\ arr' = done.heap
    /\ width' = n
    /\ calls' = Append(calls, [op |-> op, arg |-> r, before |-> Deref(arr, r),
                               res |-> done.ref, n |-> n, existing |-> Len(arr)])
    /\ UNCHANGED <<keep_attrs, src, stage>>

FrameToMmPerHour ==
    \E r \in 1..Len(arr) :
        /\ arr[r].kind = "DataArray"
        /\ FrameCall("_to_mm_per_hour", r, 0, Heap_to_mm_per_hour(arr, r, keep_attrs))

FrameEnsureUnitMmPerDay ==
    \E r \in 1..Len(arr) :
        /\ arr[r].kind = "DataArray"
        /\ FrameCall("_ensure_unit_mm_per_day", r, 0,
                  Heap_ensure_unit_mm_per_day(arr, r, keep_attrs))

FrameTrimEdges ==
    \E r \in 1..Len(arr), n \in {-1, 0, 1} :
        /\ arr[r].kind = "ndarray" /\ Deref(arr, r).ndim = 2
        /\ FrameCall("trim_edges", r, n, Heap_trim_edges(arr, r, n))

\* the object is the loaded field or a trim of it, not a spectrum or a profile
RECURSIVE FieldUpTo(_, _)
FieldUpTo(r, k) ==
    IF k = 0 THEN TRUE
    ELSE IF calls[k].res # r THEN FieldUpTo(r, k - 1)
    ELSE /\ calls[k].op = "trim_edges"
         /\ FieldUpTo(calls[k].arg, k - 1)

IsFieldObj(r) == FieldUpTo(r, Len(calls))

\* compute_spectrum is given fields, as in spectral.main
FrameComputeSpectrum ==
    \E r \in 1..Len(arr) :
        /\ arr[r].kind = "ndarray" /\ IsFieldObj(r)
        /\ FrameCall("compute_spectrum", r, 0, Heap_compute_spectrum(arr, r))

FrameRadialMean ==
    \E r \in 1..Len(arr) :
        /\ arr[r].kind = "ndarray"
        /\ FrameCall("radial_mean", r, 0, Heap_radial_mean(arr, r))

NextFrame ==
    \/ FrameToMmPerHour
    \/ FrameEnsureUnitMmPerDay
    \/ FrameTrimEdges
    \/ FrameComputeSpectrum
    \/ FrameRadialMean

SpecFrame == InitFrame /\ [][NextFrame]_vars

\* two values hold the same: rank and shape first, then the samples
SameHeld(x, y) ==
    /\ DOMAIN x = DOMAIN y
    /\ x.status = y.status
    /\ IF "ndim" \in DOMAIN x
       THEN x.ndim = y.ndim /\ x.ny = y.ny /\ x.nx = y.nx /\ x.v = y.v
       ELSE x = y

\* what a call returned: the samples and unit tag of its result, or the error
Returned(c) == IF c.res = 0 THEN RaiseA("raised") ELSE Deref(arr, c.res)

\* C21: every call of trim_edges, _to_mm_per_hour, _ensure_unit_mm_per_day,
\* compute_spectrum and radial_mean leaves the samples and the unit tag of
\* its argument as they were; a result that differs from the argument is an
\* object that did not exist before the call; and two calls of
\* compute_spectrum or of radial_mean on one input return the same.
C21_ArgumentsUntouched ==
    \A i \in 1..Len(calls) :
        LET c == calls[i]
        IN  /\ SameHeld(Deref(arr, c.arg), c.before)
            /\ (c.res # 0 /\ ~SameHeld(Deref(arr, c.res), c.before)) => c.res > c.existing
            /\ \A j \in 1..Len(calls) :
                  (calls[j].op = c.op /\ calls[j].arg = c.arg /\ calls[j].n = c.n)
                      => SameHeld(Returned(calls[j]), Returned(c))

\* C21 witness: _ensure_unit_mm_per_day has converted an hourly field with
\* nonzero samples, and was called a second time on the same field.
C21_Witness ==
    /\ Len(calls) = 2
    /\ calls[1].op = "_ensure_unit_mm_per_day" /\ calls[2].op = "_ensure_unit_mm_per_day"
    /\ calls[1].arg = 1 /\ calls[2].arg = 1
    /\ calls[1].res = 2 /\ calls[2].res = 3
    /\ arr[1].own.units = mm_h /\ arr[1].own.vals = <<<<One>>>>
    /\ arr[2].own.units = mm_day

-----------------------------------------------------------------------------
(* The radius bins of a grid under the two center conventions: src is the  *)
(* shape (ny, nx), arr the bin of every cell with the center               *)
(* (ny // 2, nx // 2), cur the bin of every cell with the center           *)
(* ((ny - 1) / 2, (nx - 1) / 2), arg the two results of                    *)
(* np.bincount(r.ravel()).                                                 *)

\* largest side of a grid
MaxGrid == 9

\* np.bincount(r.ravel()): how many cells fall in each bin from 0 to the largest
bincount(r) ==
    LET len == IF Len(r) = 0 THEN 0
               ELSE 1 + CHOOSE m \in {r[i] : i \in 1..Len(r)} : \A i \in 1..Len(r) : r[i] <= m
    IN  [b \in 1..len |-> Cardinality({i \in 1..Len(r) : r[i] = b - 1})]

InitBins ==
    /\ src \in {[ny |-> ny, nx |-> nx] : ny \in 1..MaxGrid, nx \in 1..MaxGrid}
    /\ stage = "shape"
    /\ arr = <<>> /\ cur = <<>> /\ arg = <<>> /\ calls = <<>>
    /\ keep_attrs = FALSE /\ width = 0

\* r = np.sqrt(...).astype(int) of common.radial_mean and of
\* spectral_analysis.radial_average
BinsFloorCenter ==
    /\ stage \in {"shape", "half"}
    /\ arr' = [cnt \in 1..(src.ny * src.nx) |-> Radius(src.ny, src.nx, cnt)]
    /\ stage' = IF stage = "shape" THEN "floor" ELSE "both"
    /\ UNCHANGED <<keep_attrs, src, arg, cur, calls, width>>

\* r of spectral_efficiency.radial_mean and spectral_power_comparison.radial_mean
BinsHalfCenter ==
    /\ stage \in {"shape", "floor"}
    /\ cur' = [cnt \in 1..(src.ny * src.nx) |-> EffRadius(src.ny, src.nx, cnt)]
    /\ stage' = IF stage = "shape" THEN "half" ELSE "both"
    /\ UNCHANGED <<keep_attrs, src, arg, arr, calls, width>>

\* nr = np.bincount(r.ravel()) under each convention
BinsCount ==
    /\ stage = "both"
    /\ arg' = [floor |-> bincount(arr), half |-> bincount(cur)]
    /\ stage' = "counted"
    /\ UNCHANGED <<keep_attrs, src, cur, calls, arr, width>>

NextBins ==
    \/ BinsFloorCenter
    \/ BinsHalfCenter
    \/ BinsCount

SpecBins == InitBins /\ [][NextBins]_vars

\* C22: for every grid shape and every cell, the bin under the center
\* (ny // 2, nx // 2) and the bin under the center ((ny - 1) / 2, (nx - 1) / 2)
\* differ by at most one, and are the same when ny and nx are both odd.
C22_CentersWithinOneBin ==
    stage \in {"both", "counted"} =>
        \A cnt \in 1..(src.ny * src.nx) :
            /\ arr[cnt] - cur[cnt] \in {-1, 0, 1}
            /\ (src.ny % 2 = 1 /\ src.nx % 2 = 1) => arr[cnt] = cur[cnt]

\* C22 witness: an even-sided grid on which some cell changes bin between
\* the conventions.
C22_Witness ==
    /\ stage = "both"
    /\ src.ny % 2 = 0 /\ src.nx % 2 = 0
    /\ \E cnt \in 1..(src.ny * src.nx) : arr[cnt] # cur[cnt]

\* C27: for every grid shape and both center conventions, every bin from 0
\* to the largest holds at least one cell: np.bincount(r.ravel()) has no
\* zero, so radial_average never divides by zero and np.maximum(nr, 1) is nr.
C27_NoEmptyBin ==
    stage = "counted" =>
        /\ Len(arg.floor) >= 1 /\ Len(arg.half) >= 1
        /\ \A b \in 1..Len(arg.floor) : arg.floor[b] >= 1 /\ Max(arg.floor[b], 1) = arg.floor[b]
        /\ \A b \in 1..Len(arg.half) : arg.half[b] >= 1 /\ Max(arg.half[b], 1) = arg.half[b]

\* C27 witness: a grid with at least four bins under both conventions, counted.
C27_Witness ==
    /\ stage = "counted"
    /\ Len(arg.floor) >= 4 /\ Len(arg.half) >= 4
    /\ src.ny # src.nx

-----------------------------------------------------------------------------
(* The legacy MPAS conversion of compara.py, spectral_analysis.py and the  *)
(* other older scripts, beside load_mpas_rate: src is the MPAS file, arg   *)
(* the legacy daily rate, cur the result of load_mpas_rate.                *)

\* a slip in the factor: the 24 of the hourly GPM line applied to the 3-hourly sums
prec_mpas_times24(ds) ==
    LET acc == [i \in 1..Len(ds.times) |-> ds.rainc[i] + ds.rainnc[i]]
        inc == Diff(acc)
        mean == MeanSkipNa([i \in 1..Len(inc) |-> IntNum(inc[i])])
    IN  IF mean.d = 0 THEN NumNaN ELSE Num(24 * mean.p, 0, mean.d)

\* (ds_mpas['rainc'] + ds_mpas['rainnc']).diff('Time').mean(dim='Time') * 8
prec_mpas(ds) ==
    LET acc == [i \in 1..Len(ds.times) |-> ds.rainc[i] + ds.rainnc[i]]
        inc == Diff(acc)
        mean == MeanSkipNa([i \in 1..Len(inc) |-> IntNum(inc[i])])
    IN  IF mean.d = 0 THEN NumNaN ELSE Num(8 * mean.p, 0, mean.d)

\* time stamps, in seconds: an hour and a half, three and six hours apart
LegacyStamps == {0, 5400, 10800, 21600, 27000}

LegacyFiles ==
    UNION {{[tname |-> "Time", has_rainc |-> TRUE, has_rainnc |-> TRUE,
             times |-> t, rainc |-> c, rainnc |-> nc] :
               t \in {u \in [1..n -> LegacyStamps] : Increasing(u)},
               c \in [1..n -> {0, 1, 4}], nc \in [1..n -> {0, 3}]} : n \in 1..MaxSteps}

InitLegacy ==
    /\ src \in LegacyFiles
    /\ stage = "opened"
    /\ arg = NumNaN /\ cur = RaiseR("none") /\ calls = <<>>
    /\ arr = <<>> /\ keep_attrs = FALSE /\ width = 0

\* the line of the older scripts
LegacyPrecMpas ==
    /\ stage \in {"opened", "loaded"}
    /\ arg' = prec_mpas(src)
    /\ stage' = IF stage = "opened" THEN "legacy" ELSE "both"
    /\ UNCHANGED <<keep_attrs, src, cur, calls, arr, width>>

\* load_mpas_rate(path, out_unit=..., time_mean=True), the reset filter as given
LegacyLoadMpasRate ==
    /\ stage \in {"opened", "legacy"}
    /\ \E out_unit \in {mm_day, mm_h}, drop \in BOOLEAN :
          /\ cur' = load_mpas_rate(src, out_unit, TRUE, drop)
          /\ calls' = <<[op |-> "load_mpas_rate", unit |-> out_unit,
                         time_mean |-> TRUE, drop |-> drop]>>
    /\ stage' = IF stage = "opened" THEN "loaded" ELSE "both"
    /\ UNCHANGED <<keep_attrs, src, arg, arr, width>>

NextLegacy ==
    \/ LegacyPrecMpas
    \/ LegacyLoadMpasRate

SpecLegacy == InitLegacy /\ [][NextLegacy]_vars

Intervals(ds) == 1..(Len(ds.times) - 1)
NoNegativeIncrement(ds) == \A i \in Intervals(ds) : IncOf(ds, i) >= 0
AllIncrementsZero(ds) == \A i \in Intervals(ds) : IncOf(ds, i) = 0
EveryIntervalIs(ds, seconds) == \A i \in Intervals(ds) : SecondsOf(ds, i) = seconds

\* both conversions done, the new one to mm/day
BothDaily == stage = "both" /\ calls[1].unit = mm_day

\* C23 as stated: on a 3-hourly series without negative increment the legacy
\* conversion equals load_mpas_rate(out_unit="mm/day", time_mean=True); on a
\* series with an interval other than 3 hours the two differ unless the
\* increments are zero.
C23_LegacyEqualsOnlyAtThreeHours ==
    (BothDaily /\ NoNegativeIncrement(src)) =>
        /\ EveryIntervalIs(src, 10800) => cur.vals[1] = arg
        /\ (~EveryIntervalIs(src, 10800) /\ ~AllIncrementsZero(src)) => cur.vals[1] # arg

\* C23 amended: equal on a 3-hourly series; different on a series whose
\* intervals all have one length other than 3 hours unless the increments are
\* zero; intervals of several lengths decide nothing.
C23_LegacyEqualsAtThreeHours ==
    (BothDaily /\ NoNegativeIncrement(src)) =>
        /\ EveryIntervalIs(src, 10800) => cur.vals[1] = arg
        /\ (/\ Len(src.times) >= 2
            /\ EveryIntervalIs(src, SecondsOf(src, 1)) /\ SecondsOf(src, 1) # 10800
            /\ ~AllIncrementsZero(src)) => cur.vals[1] # arg

\* C23 witness: three samples three hours apart, rain in both intervals, and
\* both conversions done.
C23_Witness ==
    /\ BothDaily
    /\ src.times = <<0, 10800, 21600>>
    /\ IncOf(src, 1) > 0 /\ IncOf(src, 2) > 0 /\ IncOf(src, 1) # IncOf(src, 2)
    /\ cur.vals[1] = arg

-----------------------------------------------------------------------------
(* The alias resolvers.  src is a dataset: the names of its data           *)
(* variables, of its coordinates and of its dimensions; cur is what the    *)
(* resolver returned or raised.                                            *)

\* largest number of names in a dataset
MaxNames == 3

lat_candidates == <<"lat", "latitude", "XLAT", "XLAT_M", "y">>
lon_candidates == <<"lon", "longitude", "XLONG", "XLONG_M", "x">>
var_candidates == <<"precipitation_rate", "precipitation">>
time_candidates == <<"time", "Time", "valid_time">>

\* next((n for n in candidates if n in present), default)
RECURSIVE NextIn(_, _, _)
NextIn(candidates, present, default) ==
    IF candidates = <<>> THEN default
    ELSE IF Head(candidates) \in present THEN Head(candidates)
    ELSE NextIn(Tail(candidates), present, default)

\* `n in ds`: the data variables and the coordinates of an xarray Dataset
InDataset(ds) == ds.data_vars \cup ds.coords

Picked(names) == [status |-> "ok", names |-> names]
RaiseK(err) == [status |-> err, names |-> <<>>]

\* a slip in the first pass: `n in ds.data_vars`, the coordinates left to the
\* second pass
pick_latlon_data_vars_first(ds) ==
    LET lat1 == NextIn(lat_candidates, ds.data_vars, "")
        lon1 == NextIn(lon_candidates, ds.data_vars, "")
        lat2 == NextIn(lat_candidates, ds.coords, lat1)
        lon2 == NextIn(lon_candidates, ds.coords, lon1)
    IN  IF lat1 # "" /\ lon1 # "" THEN Picked(<<lat1, lon1>>)
        ELSE IF lat2 # "" /\ lon2 # "" THEN Picked(<<lat2, lon2>>)
        ELSE RaiseK("KeyError")

\* pick_latlon: a pass over `n in ds`, then a pass over `n in ds.coords` that
\* keeps the name of the first pass as its default
pick_latlon(ds) ==
    LET lat1 == NextIn(lat_candidates, InDataset(ds), "")
        lon1 == NextIn(lon_candidates, InDataset(ds), "")
        lat2 == NextIn(lat_candidates, ds.coords, lat1)
        lon2 == NextIn(lon_candidates, ds.coords, lon1)
    IN  IF lat1 # "" /\ lon1 # "" THEN Picked(<<lat1, lon1>>)
        ELSE IF lat2 # "" /\ lon2 # "" THEN Picked(<<lat2, lon2>>)
        ELSE RaiseK("KeyError")

\* _pick_var of spectral.py, compare.py and smooth.py
_pick_var(ds) ==
    LET v == NextIn(var_candidates, InDataset(ds), "")
    IN  IF v # "" THEN Picked(<<v>>) ELSE RaiseK("KeyError")

\* _pick_time_name, on the names of a dataset: `name in ds.dims or name in ds.coords`
PickTimeName(ds) ==
    LET name == NextIn(time_candidates, ds.dims \cup ds.coords, "")
    IN  IF name # "" THEN Picked(<<name>>) ELSE RaiseK("KeyError")

SeqRange(q) == {q[i] : i \in 1..Len(q)}

\* the names the datasets are built from: the first, the middle and the last
\* alias of latitude and of longitude, both aliases of the precipitation
\* variable, the first and the last alias of time
AliasNames ==
    {"lat", "XLAT", "y", "lon", "XLONG", "x"} \cup SeqRange(var_candidates)
        \cup {"time", "valid_time"}

\* datasets of up to most names, each a data variable, a coordinate or a
\* dimension without coordinate
AliasDatasets(most) ==
    UNION {{[data_vars |-> {n \in ns : kind[n] = "data"},
             coords |-> {n \in ns : kind[n] = "coord"},
             dims |-> {n \in ns : kind[n] = "dim"}] :
                kind \in [ns -> {"data", "coord", "dim"}]} :
           ns \in {m \in SUBSET AliasNames : Cardinality(m) <= most}}

InitAlias ==
    /\ src \in AliasDatasets(MaxNames)
    /\ stage = "opened"
    /\ cur = RaiseK("none") /\ arg = src /\ calls = <<>>
    /\ arr = <<>> /\ keep_attrs = FALSE /\ width = 0

CallPickLatlon ==
    /\ stage = "opened"
    /\ cur' = pick_latlon(src)
    /\ stage' = "pick_latlon"
    /\ UNCHANGED <<keep_attrs, src, arg, calls, arr, width>>

CallPickVar ==
    /\ stage = "opened"
    /\ cur' = _pick_var(src)
    /\ stage' = "_pick_var"
    /\ UNCHANGED <<keep_attrs, src, arg, calls, arr, width>>

CallPickTimeName ==
    /\ stage = "opened"
    /\ cur' = PickTimeName(src)
    /\ stage' = "_pick_time_name"
    /\ UNCHANGED <<keep_attrs, src, arg, calls, arr, width>>

NextAlias ==
    \/ CallPickLatlon
    \/ CallPickVar
    \/ CallPickTimeName

SpecAlias == InitAlias /\ [][NextAlias]_vars

\* name is the earliest candidate that is present
Earliest(name, candidates, present) ==
    \E i \in 1..Len(candidates) :
        /\ candidates[i] = name /\ name \in present
        /\ \A j \in 1..(i - 1) : candidates[j] \notin present

NonePresent(candidates, present) == SeqRange(candidates) \cap present = {}

\* C24: every alias resolver returns the earliest candidate present and
\* raises KeyError when none is: pick_latlon for latitude and longitude each
\* on its own, among data variables and coordinates alike; _pick_var among
\* the variables; _pick_time_name among dimensions and coordinates.
C24_EarliestAlias ==
    /\ stage = "pick_latlon" =>
          IF NonePresent(lat_candidates, InDataset(src))
                 \/ NonePresent(lon_candidates, InDataset(src))
          THEN cur.status = "KeyError"
          ELSE /\ cur.status = "ok"
               /\ Earliest(cur.names[1], lat_candidates, InDataset(src))
               /\ Earliest(cur.names[2], lon_candidates, InDataset(src))
    /\ stage = "_pick_var" =>
          IF NonePresent(var_candidates, InDataset(src)) THEN cur.status = "KeyError"
          ELSE cur.status = "ok" /\ Earliest(cur.names[1], var_candidates, InDataset(src))
    /\ stage = "_pick_time_name" =>
          IF NonePresent(time_candidates, src.dims \cup src.coords)
          THEN cur.status = "KeyError"
          ELSE /\ cur.status = "ok"
               /\ Earliest(cur.names[1], time_candidates, src.dims \cup src.coords)

\* C24 witness: latitude as a coordinate under an early name and as a data
\* variable under a later one, longitude as a data variable, and pick_latlon
\* called.
C24_Witness ==
    /\ stage = "pick_latlon"
    /\ "lat" \in src.coords /\ "XLAT" \in src.data_vars /\ "XLONG" \in src.data_vars
    /\ cur = Picked(<<"lat", "XLONG">>)

-----------------------------------------------------------------------------
(* cli run-all with the files of data_processed/: src is the command line, *)
(* cur the files that exist, arr the files written by this run, calls one  *)
(* record per stage launched: the file it opened in data_processed/ ("" if *)
(* none), what the run had written by then, and the exit code.             *)

\* the field files of data_dir (the weights file is named relative to the
\* working directory, not to data_dir)
DataFiles ==
    {"gpm_remap_to_mpas.nc", "gpm_remap_to_mpas_timemean.nc",
     "gpm_remap_to_mpas_timeseries.nc", "gpm_smoothed.nc"}

\* regrid.main: out_name, from args.time_mean
RegridOutName(argv) ==
    IF \E i \in 1..Len(argv) : argv[i] = "--time-mean"
    THEN "gpm_remap_to_mpas_timemean.nc" ELSE "gpm_remap_to_mpas_timeseries.nc"

\* compare.main and spectral.main without --gpm-file: cand1 if cand1.exists() else cand2
RemapCandidate(files) ==
    IF "gpm_remap_to_mpas_timemean.nc" \in files
    THEN "gpm_remap_to_mpas_timemean.nc" ELSE "gpm_remap_to_mpas_timeseries.nc"

\* the file of data_processed/ that the stage script opens for reading
InputOf(modname, files) ==
    CASE modname = "regrid" -> ""
      [] modname = "smooth" -> "gpm_remap_to_mpas.nc"
      [] OTHER -> RemapCandidate(files)

\* the file of data_processed/ that the stage script writes when it succeeds
WrittenBy(modname, argv) ==
    CASE modname = "regrid" -> {RegridOutName(argv)}
      [] modname = "smooth" -> {"gpm_smoothed.nc"}
      [] OTHER -> {}

InitPipeline ==
    /\ src \in {a \in CliArgs : a.cmd = "run-all"}
    /\ cur \in SUBSET DataFiles
    /\ arr = {}
    /\ calls = <<>>
    /\ stage = "main"
    /\ arg = src /\ keep_attrs = FALSE /\ width = 0

\* one stage of run-all: argparse first (exit 2), then the input is opened
\* (a missing file ends the stage), then the work, which may fail, then the
\* output; _run raises on a nonzero exit and main ends
Stage(at, modname, argv, next) ==
    /\ stage = at
    /\ LET opened == IF ParserAccepts(modname, argv) THEN InputOf(modname, cur) ELSE ""
           codes == IF ~ParserAccepts(modname, argv) THEN {2}
                    ELSE IF opened # "" /\ opened \notin cur THEN {1}
                    ELSE {0, 1}
       IN \E rc \in codes :
             /\ calls' = Append(calls, [modname |-> modname, opened |-> opened,
                                        written |-> arr, rc |-> rc])
             /\ cur' = IF rc = 0 THEN cur \cup WrittenBy(modname, argv) ELSE cur
             /\ arr' = IF rc = 0 THEN arr \cup WrittenBy(modname, argv) ELSE arr
             /\ stage' = IF rc = 0 THEN next ELSE "failed"
    /\ UNCHANGED <<keep_attrs, src, arg, width>>

PipeRegrid ==
    /\ src.cmd = "run-all"
    /\ Stage("main", "regrid", RegridArgs(src), "regrid done")

PipeSmooth ==
    /\ src.cmd = "run-all"
    /\ Stage("regrid done", "smooth", RootArgs(src), "smooth done")

PipeCompare ==
    /\ src.cmd = "run-all"
    /\ Stage("smooth done", "compare", <<"--mpas", src.mpas>> \o RootArgs(src),
             "compare done")

PipeSpectral ==
    /\ src.cmd = "run-all"
    /\ Stage("compare done", "spectral", <<"all", "--mpas", src.mpas>> \o RootArgs(src),
             "done")

NextPipeline ==
    \/ PipeRegrid
    \/ PipeSmooth
    \/ PipeCompare
    \/ PipeSpectral

SpecPipeline == InitPipeline /\ [][NextPipeline]_vars

\* C25: in run-all, every file of data_processed/ that a stage opens was
\* written under that name by an earlier stage of the same run.
C25_StagesReadWhatWasWritten ==
    \A i \in 1..Len(calls) : calls[i].opened # "" => calls[i].opened \in calls[i].written

\* C26: for every cli subcommand and every stage of run-all, the arguments
\* cli.main forwards are accepted by the parser of the target script: no
\* child ends at argument parsing (exit code 2 of argparse).
C26_ForwardedArgsAccepted ==
    \A i \in 1..Len(calls) :
        /\ ParserAccepts(calls[i].modname, calls[i].argv)
        /\ calls[i].rc # 2

-----------------------------------------------------------------------------
(* The time mean of load_mpas_rate against the accumulation of the period. *)

\* the hourly time mean of a file without negative increment has been computed
HourlyMeanTaken ==
    /\ Called("load_mpas_rate") /\ WellFormed(src)
    /\ Lower(Strip(LastCall.unit)) = mm_h /\ LastCall.time_mean
    /\ Len(src.times) >= 2 /\ NoNegativeIncrement(src)

\* C28: for an accumulator series without negative increment, the time-mean rate of
\* load_mpas_rate(out_unit="mm/h", time_mean=True) times the hours from the first
\* stamp to the last equals the accumulation at the last stamp minus that at the
\* first, whatever the lengths of the intervals (cross-multiplied: mean = p / d).
C28_MeanRateTimesElapsedIsTotal ==
    HourlyMeanTaken
        => LET n == Len(src.times)
               elapsed == src.times[n] - src.times[1]
               total == (src.rainc[n] + src.rainnc[n]) - (src.rainc[1] + src.rainnc[1])
           IN  /\ cur.status = "ok" /\ Len(cur.vals) = 1
               /\ cur.vals[1].d # 0
               /\ cur.vals[1].p * elapsed = 3600 * total * cur.vals[1].d

-----------------------------------------------------------------------------
(* The legacy chain of run_all.py.  Paths are the strings the scripts use, *)
(* all relative to the one working directory the chain runs in; a file is  *)
(* the set of its <<path, variable>> pairs.  The inputs outside the        *)
(* project (the GPM and MPAS files) are taken as present.                  *)

RemapHere == "gpm_remap_to_mpas.nc"
RemapUp == "../data_processed/gpm_remap_to_mpas.nc"
RemapData == "data_processed/gpm_remap_to_mpas.nc"
SmoothedUp == "../data_processed/gpm_smoothed.nc"

FileWith(path, names) == {<<path, v>> : v \in names}

\* run_all.py: the scripts, in the order of the run(...) calls
ChainScripts ==
    <<"regrid_gpm_to_mpas.py", "smooth_gpm.py", "compara.py",
      "compare_gpm_remap_mpas.py", "spectral_analysis.py",
      "spectral_power_comparison.py", "spectral_efficiency.py">>

\* the variables a script reads from the remapped and the smoothed file
ChainReads(script) ==
    CASE script = "smooth_gpm.py" -> FileWith(RemapUp, {"precipitation"})
      [] script = "compare_gpm_remap_mpas.py" -> FileWith(RemapUp, {"precipitation"})
      [] script = "spectral_analysis.py" ->
            FileWith(RemapUp, {"precipitation"})
            \cup FileWith(SmoothedUp, {"precipitation_movmean", "precipitation_gaussian"})
      [] script = "spectral_power_comparison.py" -> FileWith(RemapData, {"precipitation"})
      [] script = "spectral_efficiency.py" -> FileWith(RemapData, {"precipitation"})
      [] OTHER -> {}

\* the variables a script writes, with the file it writes them to
ChainWrites(script) ==
    CASE script = "regrid_gpm_to_mpas.py" -> FileWith(RemapHere, {"precipitation"})
      [] script = "smooth_gpm.py" ->
            FileWith(SmoothedUp, {"precipitation_original", "precipitation_movavg3x3",
                                  "precipitation_gauss3x3"})
      [] OTHER -> {}

\* to_netcdf replaces the file: what is left of fs plus the new content
WriteFiles(fs, content) ==
    {f \in fs : \A c \in content : c[1] # f[1]} \cup content

\* what the working directory may hold before the chain starts
ChainFilesystems ==
    {FileWith(RemapHere, h) \cup FileWith(RemapUp, a) \cup FileWith(RemapData, b)
        \cup FileWith(SmoothedUp, c) :
        h \in {{}, {"precipitation"}},
        a \in {{}, {"precipitation"}, {"precipitation_rate"}},
        b \in {{}, {"precipitation"}, {"precipitation_rate"}},
        c \in {{}, {"precipitation_movmean", "precipitation_gaussian"},
               {"precipitation_original", "precipitation_movavg3x3",
                "precipitation_gauss3x3"}}}

InitChain ==
    /\ src \in ChainFilesystems
    /\ cur = src
    /\ arr = {}
    /\ calls = <<>>
    /\ width = 0
    /\ stage = "running"
    /\ arg = src /\ keep_attrs = FALSE

\* run(script): the script ends with an error when a file or a variable it reads
\* is missing (FileNotFoundError, KeyError) and may end with one otherwise;
\* check=True then ends the chain.  After the last script the message is printed.
ChainRun ==
    /\ stage = "running" /\ width < Len(ChainScripts)
    /\ LET script == ChainScripts[width + 1]
           codes == IF ChainReads(script) \subseteq cur THEN {0, 1} ELSE {1}
       IN \E rc \in codes :
             /\ calls' = Append(calls, [script |-> script, reads |-> ChainReads(script),
                                        written |-> arr, rc |-> rc])
             /\ cur' = IF rc = 0 THEN WriteFiles(cur, ChainWrites(script)) ELSE cur
             /\ arr' = IF rc = 0 THEN WriteFiles(arr, ChainWrites(script)) ELSE arr
             /\ width' = IF rc = 0 THEN width + 1 ELSE width
             /\ stage' = IF rc # 0 THEN "failed"
                         ELSE IF width + 1 = Len(ChainScripts) THEN "done"
                         ELSE "running"
    /\ UNCHANGED <<keep_attrs, src, arg>>

NextChain == ChainRun

SpecChain == InitChain /\ [][NextChain]_vars

\* C29: in the chain of run_all.py every path and variable a script reads from
\* gpm_remap_to_mpas.nc or gpm_smoothed.nc was written by an earlier script of
\* the chain.
C29_ChainReadsWhatWasWritten ==
    \A i \in 1..Len(calls) : calls[i].reads \subseteq calls[i].written

\* the success message of run_all.py is never printed
ChainNeverSucceeds == stage # "done"

-----------------------------------------------------------------------------
(* Starting a script of the package: the names it imports from             *)
(* scripts.common are looked up one by one, in the order of the import     *)
(* statement, in the namespace of common.py; the first name that is not    *)
(* there ends the start with an ImportError.                               *)

\* largest number of scripts started one after the other
MaxStarts == 2

\* the names bound at the top level of common.py: its imports, class and functions
CommonNamespace ==
    {"annotations", "dataclass", "Path", "logging", "np", "xr", "fft2", "fftshift",
     "__all__", "Paths", "resolve_paths", "pick_latlon", "setup_logging",
     "print_field_stats", "compute_spectrum", "radial_mean", "trim_edges"}

\* the scripts of the package that import from .common
PackageScripts ==
    {"compare", "inspect_fields", "plot_map", "regrid", "smooth", "spectral"}

\* the names of each script's `from .common import ...` statement, in its order
ImportsFromCommon(script) ==
    CASE script = "compare" -> <<"resolve_paths", "setup_logging", "pick_latlon">>
      [] script = "inspect_fields" -> <<"resolve_paths", "load_mpas_precip_daily">>
      [] script = "plot_map" -> <<"resolve_paths", "get_spatial_dims", "print_field_stats">>
      [] script = "regrid" -> <<"resolve_paths", "setup_logging", "pick_latlon">>
      [] script = "smooth" -> <<"resolve_paths", "setup_logging">>
      [] script = "spectral" -> <<"resolve_paths", "setup_logging", "compute_spectrum",
                                  "radial_mean", "trim_edges", "print_field_stats">>

InitImport ==
    /\ src = ""
    /\ stage = "idle"
    /\ width = 0
    /\ arr = <<>>
    /\ calls = <<>>
    /\ arg = "" /\ cur = "" /\ keep_attrs = FALSE

\* python -m scripts.<script>: the module body starts to run
StartScript ==
    /\ stage \in {"idle", "started", "ImportError"}
    /\ Len(calls) < MaxStarts
    /\ \E script \in PackageScripts : src' = script
    /\ stage' = "importing" /\ width' = 0 /\ arr' = <<>>
    /\ UNCHANGED <<keep_attrs, arg, cur, calls>>

\* one name of the import statement: bound when common.py has it
ImportFrom ==
    /\ stage = "importing" /\ width < Len(ImportsFromCommon(src))
    /\ LET name == ImportsFromCommon(src)[width + 1]
       IN  IF name \in CommonNamespace
           THEN /\ arr' = Append(arr, name) /\ width' = width + 1
                /\ UNCHANGED <<stage, calls>>
           ELSE /\ stage' = "ImportError"
                /\ calls' = Append(calls, [script |-> src, status |-> "ImportError",
                                           name |-> name])
                /\ UNCHANGED <<arr, width>>
    /\ UNCHANGED <<keep_attrs, src, arg, cur>>

\* every name is bound: the rest of the module body and main() can run
ImportsDone ==
    /\ stage = "importing" /\ width = Len(ImportsFromCommon(src))
    /\ stage' = "started"
    /\ calls' = Append(calls, [script |-> src, status |-> "started", name |-> ""])
    /\ UNCHANGED <<keep_attrs, src, arg, cur, arr, width>>

NextImport ==
    \/ StartScript
    \/ ImportFrom
    \/ ImportsDone

SpecImport == InitImport /\ [][NextImport]_vars

\* C30: every name a script of the package imports from scripts.common is
\* defined by common.py: no script, plot_map and inspect_fields included,
\* ends its start with an import failure.
C30_NoImportFailure ==
    \A i \in 1..Len(calls) : calls[i].status # "ImportError"

====
